---- MODULE Spec2Model ----
(***************************************************************************)
(* Multi-function procedure (source/blender/functions/intern/              *)
(* multi_function_procedure.cc): the builder API of MFProcedure, the edge  *)
(* mutators of its instructions, and the validator with its                *)
(* initialization analysis.                                                *)
(*                                                                         *)
(* An instruction pointer is a pair <<kind, k>>: the k-th element of the   *)
(* procedure's list of that kind (the procedure keeps one list per kind    *)
(* and no order between kinds).  A variable pointer is the position of     *)
(* the variable in variables_.                                             *)
(***************************************************************************)
EXTENDS Naturals, Sequences, FiniteSets

VARIABLES variables_, call_instructions_, branch_instructions_,
          destruct_instructions_, dummy_instructions_, return_instructions_,
          params_, entry_, validate_result, cursor, query, edit, last_set

vars == <<variables_, call_instructions_, branch_instructions_,
          destruct_instructions_, dummy_instructions_, return_instructions_,
          params_, entry_, validate_result, cursor, query, edit, last_set>>

(* ---------------------------------------------------------------- bounds *)

\* Instructions and variables of a procedure of the free builder (Spec).
MaxInstr == 2
MaxVars == 2

(* ------------------------------------------------------ external inputs *)

\* nullptr for instruction pointers and for variable pointers.
NULL == <<"Null", 0>>
NULLV == 0

Kinds == {"Call", "Branch", "Destruct", "Dummy", "Return"}

\* MFParamType::InterfaceType
Input == "Input"
Mutable == "Mutable"
Output == "Output"
InterfaceTypes == {Input, Mutable, Output}

\* The data types and names the caller passes.
DataTypes == {"T"}
Names == {"", "x"}

\* A MultiFunction is its parameter list; every parameter has data type "T".
Fns == { <<Mutable>>, <<Input, Output>> }

param_amount(fn) == Len(fn)
param_indices(fn) == 1..Len(fn)
param_type(fn, i) == [data_type |-> "T", interface_type |-> fn[i]]

(* ------------------------------------------------------------ the state *)

\* The five instruction lists as one record, keyed by kind.
Instrs == [Call |-> call_instructions_, Branch |-> branch_instructions_,
           Destruct |-> destruct_instructions_, Dummy |-> dummy_instructions_,
           Return |-> return_instructions_]

\* All instruction pointers of a store I.
PtrsOf(I) == UNION { {<<k, i>> : i \in 1..Len(I[k])} : k \in Kinds }
AllInstructions == PtrsOf(Instrs)
NumInstructions == Cardinality(AllInstructions)
VarPtrs == 1..Len(variables_)

At(I, p) == I[p[1]][p[2]]
type_(p) == p[1]
prev_(p) == At(Instrs, p).prev_

\* The successor slots of each kind of instruction.
SuccSlots(kind) ==
  CASE kind = "Branch" -> {"branch_true_", "branch_false_"}
    [] kind = "Return" -> {}
    [] OTHER -> {"next_"}

(* -------------------------------------------------------------- vectors *)

RECURSIVE first_index_of(_, _, _)
first_index_of(s, x, i) ==
  IF i > Len(s) THEN 0
  ELSE IF s[i] = x THEN i ELSE first_index_of(s, x, i + 1)

\* remove_first_occurrence_and_reorder that removes every occurrence of x.
remove_all_occurrences(s, x) == SelectSeq(s, LAMBDA y : y # x)

\* Vector::remove_first_occurrence_and_reorder: the last element takes the
\* place of the first occurrence of x, and the vector shrinks by one.
remove_first_occurrence_and_reorder(s, x) ==
  LET i == first_index_of(s, x, 1)
      n == Len(s)
  IN IF i = 0 THEN s
     ELSE SubSeq([s EXCEPT ![i] = s[n]], 1, n - 1)

\* Occurrences of x in s.
Count(s, x) == Cardinality({i \in 1..Len(s) : s[i] = x})

(* -------------------------------------------------------- edge mutators *)

\* set_successor without the detach from the old target.
set_successor_keeps_old_prev(I, this, slot, instruction) ==
  LET I2 == IF instruction # NULL
              THEN [I EXCEPT ![instruction[1]][instruction[2]].prev_ = Append(@, this)]
              ELSE I
  IN [I2 EXCEPT ![this[1]][this[2]][slot] = instruction]

\* The body shared by the five successor setters: detach from the old
\* target's prev_, attach to the new target's prev_, store the pointer.
set_successor(I, this, slot, instruction) ==
  LET old == At(I, this)[slot]
      I1 == IF old # NULL
              THEN [I EXCEPT ![old[1]][old[2]].prev_ =
                                 remove_first_occurrence_and_reorder(@, this)]
              ELSE I
      I2 == IF instruction # NULL
              THEN [I1 EXCEPT ![instruction[1]][instruction[2]].prev_ = Append(@, this)]
              ELSE I1
  IN [I2 EXCEPT ![this[1]][this[2]][slot] = instruction]

\* set_user without the detach from the old variable.
set_user_keeps_old_user(V, this, old, variable) ==
  IF variable # NULLV
    THEN [V EXCEPT ![variable].users_ = Append(@, this)]
    ELSE V

\* set_user that appends only when the slot was empty before.
set_user_appends_once(V, this, old, variable) ==
  LET V1 == IF old # NULLV
              THEN [V EXCEPT ![old].users_ =
                                 remove_first_occurrence_and_reorder(@, this)]
              ELSE V
  IN IF variable # NULLV /\ old = NULLV
       THEN [V1 EXCEPT ![variable].users_ = Append(@, this)]
       ELSE V1

\* The body shared by the variable setters, on the users_ lists.
set_user(V, this, old, variable) ==
  LET V1 == IF old # NULLV
              THEN [V EXCEPT ![old].users_ =
                                 remove_first_occurrence_and_reorder(@, this)]
              ELSE V
  IN IF variable # NULLV
       THEN [V1 EXCEPT ![variable].users_ = Append(@, this)]
       ELSE V1

\* MFCallInstruction::set_param_variable on the pair st = [I, V].
set_param_variable(st, this, param_index, variable) ==
  [I |-> [st.I EXCEPT ![this[1]][this[2]].params_[param_index] = variable],
   V |-> set_user(st.V, this, At(st.I, this).params_[param_index], variable)]

\* MFCallInstruction::set_params: set_param_variable for each index in turn.
RECURSIVE set_params(_, _, _, _)
set_params(st, this, variables, i) ==
  IF i > Len(variables) THEN st
  ELSE set_params(set_param_variable(st, this, i, variables[i]), this, variables, i + 1)

StoreInstrs(I) ==
  /\ call_instructions_' = I.Call
  /\ branch_instructions_' = I.Branch
  /\ destruct_instructions_' = I.Destruct
  /\ dummy_instructions_' = I.Dummy
  /\ return_instructions_' = I.Return

Targets == AllInstructions \cup {NULL}
VarTargets == VarPtrs \cup {NULLV}

Call_set_next(this, instruction) ==
  /\ StoreInstrs(set_successor(Instrs, this, "next_", instruction))
  /\ validate_result' = "none"
  /\ UNCHANGED <<variables_, params_, entry_>>

Call_set_param_variable(this, param_index, variable) ==
  /\ variable # NULLV =>
       param_type(At(Instrs, this).fn_, param_index).data_type
         = variables_[variable].data_type_
  /\ LET st == set_param_variable([I |-> Instrs, V |-> variables_],
                                  this, param_index, variable)
     IN /\ StoreInstrs(st.I)
        /\ variables_' = st.V
  /\ validate_result' = "none"
  /\ UNCHANGED <<params_, entry_>>

Call_set_params(this, variables) ==
  /\ Len(variables) = Len(At(Instrs, this).params_)
  /\ \A i \in 1..Len(variables) :
       variables[i] # NULLV =>
         param_type(At(Instrs, this).fn_, i).data_type
           = variables_[variables[i]].data_type_
  /\ LET st == set_params([I |-> Instrs, V |-> variables_], this, variables, 1)
     IN /\ StoreInstrs(st.I)
        /\ variables_' = st.V
  /\ validate_result' = "none"
  /\ UNCHANGED <<params_, entry_>>

Branch_set_condition(this, variable) ==
  /\ variables_' = set_user(variables_, this, At(Instrs, this).condition_, variable)
  /\ StoreInstrs([Instrs EXCEPT ![this[1]][this[2]].condition_ = variable])
  /\ validate_result' = "none"
  /\ UNCHANGED <<params_, entry_>>

Branch_set_branch_true(this, instruction) ==
  /\ StoreInstrs(set_successor(Instrs, this, "branch_true_", instruction))
  /\ validate_result' = "none"
  /\ UNCHANGED <<variables_, params_, entry_>>

Branch_set_branch_false(this, instruction) ==
  /\ StoreInstrs(set_successor(Instrs, this, "branch_false_", instruction))
  /\ validate_result' = "none"
  /\ UNCHANGED <<variables_, params_, entry_>>

Destruct_set_variable(this, variable) ==
  /\ variables_' = set_user(variables_, this, At(Instrs, this).variable_, variable)
  /\ StoreInstrs([Instrs EXCEPT ![this[1]][this[2]].variable_ = variable])
  /\ validate_result' = "none"
  /\ UNCHANGED <<params_, entry_>>

Destruct_set_next(this, instruction) ==
  /\ StoreInstrs(set_successor(Instrs, this, "next_", instruction))
  /\ validate_result' = "none"
  /\ UNCHANGED <<variables_, params_, entry_>>

Dummy_set_next(this, instruction) ==
  /\ StoreInstrs(set_successor(Instrs, this, "next_", instruction))
  /\ validate_result' = "none"
  /\ UNCHANGED <<variables_, params_, entry_>>

set_name(variable, name) ==
  /\ variables_' = [variables_ EXCEPT ![variable].name_ = name]
  /\ validate_result' = "none"
  /\ UNCHANGED <<call_instructions_, branch_instructions_, destruct_instructions_,
                 dummy_instructions_, return_instructions_, params_, entry_>>

(* ---------------------------------------------------------- builder API *)

\* new_variable that numbers the variables from 1.
new_variable_id_from_one(data_type, name) ==
  /\ variables_' = Append(variables_,
                          [name_ |-> name, data_type_ |-> data_type,
                           id_ |-> Len(variables_) + 1, users_ |-> <<>>])
  /\ validate_result' = "none"
  /\ UNCHANGED <<call_instructions_, branch_instructions_, destruct_instructions_,
                 dummy_instructions_, return_instructions_, params_, entry_>>

new_variable(data_type, name) ==
  /\ variables_' = Append(variables_,
                          [name_ |-> name, data_type_ |-> data_type,
                           id_ |-> Len(variables_), users_ |-> <<>>])
  /\ validate_result' = "none"
  /\ UNCHANGED <<call_instructions_, branch_instructions_, destruct_instructions_,
                 dummy_instructions_, return_instructions_, params_, entry_>>

new_call_instruction(fn) ==
  /\ call_instructions_' =
       Append(call_instructions_,
              [fn_ |-> fn, params_ |-> [i \in 1..param_amount(fn) |-> NULLV],
               next_ |-> NULL, prev_ |-> <<>>])
  /\ validate_result' = "none"
  /\ UNCHANGED <<variables_, branch_instructions_, destruct_instructions_,
                 dummy_instructions_, return_instructions_, params_, entry_>>

new_branch_instruction ==
  /\ branch_instructions_' =
       Append(branch_instructions_,
              [condition_ |-> NULLV, branch_true_ |-> NULL, branch_false_ |-> NULL,
               prev_ |-> <<>>])
  /\ validate_result' = "none"
  /\ UNCHANGED <<variables_, call_instructions_, destruct_instructions_,
                 dummy_instructions_, return_instructions_, params_, entry_>>

new_destruct_instruction ==
  /\ destruct_instructions_' =
       Append(destruct_instructions_,
              [variable_ |-> NULLV, next_ |-> NULL, prev_ |-> <<>>])
  /\ validate_result' = "none"
  /\ UNCHANGED <<variables_, call_instructions_, branch_instructions_,
                 dummy_instructions_, return_instructions_, params_, entry_>>

\* new_dummy_instruction whose next_ starts out as the instruction itself.
new_dummy_instruction_self_loop ==
  /\ dummy_instructions_' =
       Append(dummy_instructions_,
              [next_ |-> <<"Dummy", Len(dummy_instructions_) + 1>>,
               prev_ |-> << <<"Dummy", Len(dummy_instructions_) + 1>> >>])
  /\ validate_result' = "none"
  /\ UNCHANGED <<variables_, call_instructions_, branch_instructions_,
                 destruct_instructions_, return_instructions_, params_, entry_>>

new_dummy_instruction ==
  /\ dummy_instructions_' =
       Append(dummy_instructions_, [next_ |-> NULL, prev_ |-> <<>>])
  /\ validate_result' = "none"
  /\ UNCHANGED <<variables_, call_instructions_, branch_instructions_,
                 destruct_instructions_, return_instructions_, params_, entry_>>

new_return_instruction ==
  /\ return_instructions_' = Append(return_instructions_, [prev_ |-> <<>>])
  /\ validate_result' = "none"
  /\ UNCHANGED <<variables_, call_instructions_, branch_instructions_,
                 destruct_instructions_, dummy_instructions_, params_, entry_>>

add_parameter(interface_type, variable) ==
  /\ params_' = Append(params_, [type |-> interface_type, variable |-> variable])
  /\ validate_result' = "none"
  /\ UNCHANGED <<variables_, call_instructions_, branch_instructions_,
                 destruct_instructions_, dummy_instructions_, return_instructions_,
                 entry_>>

set_entry(entry) ==
  /\ entry_' = entry
  /\ validate_result' = "none"
  /\ UNCHANGED <<variables_, call_instructions_, branch_instructions_,
                 destruct_instructions_, dummy_instructions_, return_instructions_,
                 params_>>

(* ------------------------------------------------------------ validator *)

\* The pointer stage without its loop over the dummy instructions.
validate_all_instruction_pointers_set_skips_dummy ==
  /\ \A i \in 1..Len(call_instructions_) : call_instructions_[i].next_ # NULL
  /\ \A i \in 1..Len(destruct_instructions_) : destruct_instructions_[i].next_ # NULL
  /\ \A i \in 1..Len(branch_instructions_) :
       /\ branch_instructions_[i].branch_true_ # NULL
       /\ branch_instructions_[i].branch_false_ # NULL

validate_all_instruction_pointers_set ==
  /\ \A i \in 1..Len(call_instructions_) : call_instructions_[i].next_ # NULL
  /\ \A i \in 1..Len(destruct_instructions_) : destruct_instructions_[i].next_ # NULL
  /\ \A i \in 1..Len(branch_instructions_) :
       /\ branch_instructions_[i].branch_true_ # NULL
       /\ branch_instructions_[i].branch_false_ # NULL
  /\ \A i \in 1..Len(dummy_instructions_) : dummy_instructions_[i].next_ # NULL

validate_all_params_provided ==
  /\ \A i \in 1..Len(call_instructions_) :
       \A k \in 1..Len(call_instructions_[i].params_) :
         call_instructions_[i].params_[k] # NULLV
  /\ \A i \in 1..Len(branch_instructions_) : branch_instructions_[i].condition_ # NULLV
  /\ \A i \in 1..Len(destruct_instructions_) : destruct_instructions_[i].variable_ # NULLV

\* The aliasing loops with Mutable taken for a shareable role, like Input.
same_variables_in_call_ok_mutable_shared(instruction) ==
  LET fn == instruction.fn_
  IN \A param_index \in param_indices(fn) :
       \A other_param_index \in param_indices(fn) :
         \/ other_param_index = param_index
         \/ instruction.params_[other_param_index] # instruction.params_[param_index]
         \/ /\ param_type(fn, param_index).interface_type # Output
            /\ param_type(fn, other_param_index).interface_type # Output

\* The two nested loops over one call instruction's parameter indices.
same_variables_in_call_ok(instruction) ==
  LET fn == instruction.fn_
  IN \A param_index \in param_indices(fn) :
       \A other_param_index \in param_indices(fn) :
         \/ other_param_index = param_index
         \/ instruction.params_[other_param_index] # instruction.params_[param_index]
         \/ /\ param_type(fn, param_index).interface_type \notin {Mutable, Output}
            /\ param_type(fn, other_param_index).interface_type = Input

validate_same_variables_in_one_call ==
  \A i \in 1..Len(call_instructions_) : same_variables_in_call_ok(call_instructions_[i])

\* The parameter stage with a set of (role, variable) entries instead of a
\* set of variables.
validate_parameters_by_role_and_variable ==
  \A i \in 1..Len(params_) :
    \A j \in 1..(i - 1) : params_[j] # params_[i]

\* Set::add fails on the second entry that names a variable already added.
validate_parameters ==
  \A i \in 1..Len(params_) :
    \A j \in 1..(i - 1) : params_[j].variable # params_[i].variable

\* check_entry_instruction that takes every parameter, Output included, for
\* initialized by the caller.
check_entry_instruction_any_role(state, target_variable) ==
  LET caller_initialized_variable ==
        \E i \in 1..Len(params_) : params_[i].variable = target_variable
  IN IF caller_initialized_variable
       THEN [state EXCEPT !.can_be_initialized = TRUE]
       ELSE [state EXCEPT !.can_be_uninitialized = TRUE]

\* check_entry_instruction that leaves the state alone when an edge leads
\* back into the entry.
check_entry_instruction_unless_back_edge(state, target_variable) ==
  LET caller_initialized_variable ==
        \E i \in 1..Len(params_) :
          /\ params_[i].variable = target_variable
          /\ params_[i].type \in {Input, Mutable}
  IN IF prev_(entry_) # <<>> THEN state
     ELSE IF caller_initialized_variable
       THEN [state EXCEPT !.can_be_initialized = TRUE]
       ELSE [state EXCEPT !.can_be_uninitialized = TRUE]

\* The lambda check_entry_instruction: folds the entry state into state.
check_entry_instruction(state, target_variable) ==
  LET caller_initialized_variable ==
        \E i \in 1..Len(params_) :
          /\ params_[i].variable = target_variable
          /\ params_[i].type \in {Input, Mutable}
  IN IF caller_initialized_variable
       THEN [state EXCEPT !.can_be_initialized = TRUE]
       ELSE [state EXCEPT !.can_be_uninitialized = TRUE]

\* A default-constructed InitState.
InitState0 == [can_be_initialized |-> FALSE, can_be_uninitialized |-> FALSE]

\* analysis_begin that pushes the target's prev_ twice.
analysis_begin_seeds_twice(target_instruction, target_variable) ==
  [state |-> IF target_instruction = entry_
               THEN check_entry_instruction(InitState0, target_variable)
               ELSE InitState0,
   checked_instructions |-> {},
   instructions_to_check |-> prev_(target_instruction) \o prev_(target_instruction)]

\* The query before the loop: the entry check of the target and the stack
\* seeded with the target's prev_ (push_multiple: the last one ends on top).
analysis_begin(target_instruction, target_variable) ==
  [state |-> IF target_instruction = entry_
               THEN check_entry_instruction(InitState0, target_variable)
               ELSE InitState0,
   checked_instructions |-> {},
   instructions_to_check |-> prev_(target_instruction)]

\* call_writes without the test of the parameter's interface type.
call_writes_any_slot(instruction, target_variable) ==
  /\ instruction[1] = "Call"
  /\ LET c == At(Instrs, instruction)
     IN \E param_index \in param_indices(c.fn_) :
          c.params_[param_index] = target_variable

\* Does this instruction change the initialization state of target_variable?
call_writes(instruction, target_variable) ==
  /\ type_(instruction) = "Call"
  /\ LET c == At(Instrs, instruction)
     IN \E param_index \in param_indices(c.fn_) :
          /\ c.params_[param_index] = target_variable
          /\ param_type(c.fn_, param_index).interface_type = Output

\* destruct_clears without the test of the destructed variable.
destruct_clears_any_variable(instruction, target_variable) ==
  type_(instruction) = "Destruct"

destruct_clears(instruction, target_variable) ==
  /\ type_(instruction) = "Destruct"
  /\ At(Instrs, instruction).variable_ = target_variable

\* The loop body without the entry check of a predecessor.
analysis_step_no_entry_check(q, target_variable) ==
  LET n == Len(q.instructions_to_check)
      instruction == q.instructions_to_check[n]
      rest == SubSeq(q.instructions_to_check, 1, n - 1)
  IN IF instruction \in q.checked_instructions
       THEN [q EXCEPT !.instructions_to_check = rest]
       ELSE LET checked == q.checked_instructions \cup {instruction}
            IN IF call_writes(instruction, target_variable)
                 THEN [state |-> [q.state EXCEPT !.can_be_initialized = TRUE],
                       checked_instructions |-> checked,
                       instructions_to_check |-> rest]
               ELSE IF destruct_clears(instruction, target_variable)
                 THEN [state |-> [q.state EXCEPT !.can_be_uninitialized = TRUE],
                       checked_instructions |-> checked,
                       instructions_to_check |-> rest]
               ELSE [state |-> q.state,
                     checked_instructions |-> checked,
                     instructions_to_check |-> rest \o prev_(instruction)]

\* The loop body that does not remember an instruction it expands.
analysis_step_forgets_checked(q, target_variable) ==
  LET n == Len(q.instructions_to_check)
      instruction == q.instructions_to_check[n]
      rest == SubSeq(q.instructions_to_check, 1, n - 1)
  IN IF instruction \in q.checked_instructions
       THEN [q EXCEPT !.instructions_to_check = rest]
       ELSE LET checked == q.checked_instructions \cup {instruction}
            IN IF call_writes(instruction, target_variable)
                 THEN [state |-> [q.state EXCEPT !.can_be_initialized = TRUE],
                       checked_instructions |-> checked,
                       instructions_to_check |-> rest]
               ELSE IF destruct_clears(instruction, target_variable)
                 THEN [state |-> [q.state EXCEPT !.can_be_uninitialized = TRUE],
                       checked_instructions |-> checked,
                       instructions_to_check |-> rest]
               ELSE [state |-> IF instruction = entry_
                                 THEN check_entry_instruction(q.state, target_variable)
                                 ELSE q.state,
                     checked_instructions |-> q.checked_instructions,
                     instructions_to_check |-> rest \o prev_(instruction)]

\* One iteration of the while loop.
analysis_step(q, target_variable) ==
  LET n == Len(q.instructions_to_check)
      instruction == q.instructions_to_check[n]
      rest == SubSeq(q.instructions_to_check, 1, n - 1)
  IN IF instruction \in q.checked_instructions
       THEN [q EXCEPT !.instructions_to_check = rest]
       ELSE LET checked == q.checked_instructions \cup {instruction}
            IN IF call_writes(instruction, target_variable)
                 THEN [state |-> [q.state EXCEPT !.can_be_initialized = TRUE],
                       checked_instructions |-> checked,
                       instructions_to_check |-> rest]
               ELSE IF destruct_clears(instruction, target_variable)
                 THEN [state |-> [q.state EXCEPT !.can_be_uninitialized = TRUE],
                       checked_instructions |-> checked,
                       instructions_to_check |-> rest]
               ELSE [state |-> IF instruction = entry_
                                 THEN check_entry_instruction(q.state, target_variable)
                                 ELSE q.state,
                     checked_instructions |-> checked,
                     instructions_to_check |-> rest \o prev_(instruction)]

RECURSIVE analysis_loop(_, _)
analysis_loop(q, target_variable) ==
  IF q.instructions_to_check = <<>> THEN q.state
  ELSE analysis_loop(analysis_step(q, target_variable), target_variable)

find_initialization_state_before_instruction(target_instruction, target_variable) ==
  analysis_loop(analysis_begin(target_instruction, target_variable), target_variable)

\* variables_that_should_be_initialized_on_return that takes the Mutable
\* parameters only.
variables_of_mutable_parameters ==
  { params_[i].variable : i \in {j \in 1..Len(params_) : params_[j].type = Mutable} }

\* variables_that_should_be_initialized_on_return without the test of the
\* parameter's role.
variables_of_all_parameters == { params_[i].variable : i \in 1..Len(params_) }

variables_that_should_be_initialized_on_return ==
  { params_[i].variable : i \in {j \in 1..Len(params_) :
                                   params_[j].type \in {Mutable, Output}} }

\* The use checks with no check for an Input parameter of a call.
validate_initialization_uses_skips_input ==
  /\ \A i \in 1..Len(destruct_instructions_) :
       find_initialization_state_before_instruction(
         <<"Destruct", i>>, destruct_instructions_[i].variable_).can_be_initialized
  /\ \A i \in 1..Len(branch_instructions_) :
       find_initialization_state_before_instruction(
         <<"Branch", i>>, branch_instructions_[i].condition_).can_be_initialized
  /\ \A i \in 1..Len(call_instructions_) :
       LET fn == call_instructions_[i].fn_
       IN \A param_index \in param_indices(fn) :
            LET state == find_initialization_state_before_instruction(
                           <<"Call", i>>, call_instructions_[i].params_[param_index])
            IN CASE param_type(fn, param_index).interface_type = Output ->
                      state.can_be_uninitialized
                 [] param_type(fn, param_index).interface_type = Mutable ->
                      state.can_be_initialized
                 [] OTHER -> TRUE

validate_initialization_uses ==
  /\ \A i \in 1..Len(destruct_instructions_) :
       find_initialization_state_before_instruction(
         <<"Destruct", i>>, destruct_instructions_[i].variable_).can_be_initialized
  /\ \A i \in 1..Len(branch_instructions_) :
       find_initialization_state_before_instruction(
         <<"Branch", i>>, branch_instructions_[i].condition_).can_be_initialized
  /\ \A i \in 1..Len(call_instructions_) :
       LET fn == call_instructions_[i].fn_
       IN \A param_index \in param_indices(fn) :
            LET state == find_initialization_state_before_instruction(
                           <<"Call", i>>, call_instructions_[i].params_[param_index])
            IN IF param_type(fn, param_index).interface_type = Output
                 THEN state.can_be_uninitialized
                 ELSE state.can_be_initialized

\* The return checks without the else branch: only the Mutable and Output
\* parameters are checked.
validate_initialization_returns_skips_locals ==
  \A i \in 1..Len(return_instructions_) :
    \A variable \in VarPtrs :
      LET init_state == find_initialization_state_before_instruction(<<"Return", i>>, variable)
      IN variable \in variables_that_should_be_initialized_on_return
           => init_state.can_be_initialized

validate_initialization_returns ==
  \A i \in 1..Len(return_instructions_) :
    \A variable \in VarPtrs :
      LET init_state == find_initialization_state_before_instruction(<<"Return", i>>, variable)
      IN IF variable \in variables_that_should_be_initialized_on_return
           THEN init_state.can_be_initialized
           ELSE init_state.can_be_uninitialized

validate_initialization ==
  /\ validate_initialization_uses
  /\ validate_initialization_returns

validate ==
  /\ entry_ # NULL
  /\ validate_all_instruction_pointers_set
  /\ validate_all_params_provided
  /\ validate_same_variables_in_one_call
  /\ validate_parameters
  /\ validate_initialization

\* A call of validate(): the procedure is not changed, the result is kept.
Validate ==
  /\ validate_result' = IF validate THEN "true" ELSE "false"
  /\ UNCHANGED <<variables_, call_instructions_, branch_instructions_,
                 destruct_instructions_, dummy_instructions_, return_instructions_,
                 params_, entry_>>

(* ------------------------------------------- the free builder: Spec *)

\* The caller of Spec calls the operations in any order, with any arguments.
\* cursor belongs to the scripted callers below and stays 0 here.

\* query: the call of find_initialization_state_before_instruction that is
\* running or has returned: its arguments, its locals q (state,
\* checked_instructions, instructions_to_check), and what it has done so far:
\* the instructions it has pushed, popped and examined, in order.
NoQuery ==
  [running |-> FALSE, finished |-> FALSE,
   target_instruction |-> NULL, target_variable |-> NULLV,
   q |-> [state |-> InitState0, checked_instructions |-> {},
          instructions_to_check |-> <<>>],
   pushed |-> <<>>, popped |-> <<>>, examined |-> <<>>]

\* edit: the last change a caller made to a procedure it had validated: the
\* operation, the instruction and the variable it was about, and what the
\* validator found before the change: whether the structural stages passed
\* and which initialization checks <<instruction, variable>> failed.
NoEdit ==
  [op |-> "none", instruction |-> NULL, variable |-> NULLV,
   structural |-> FALSE, failed |-> {}]

\* last_set: the last call of a set_* operation by a caller that rewires a
\* procedure: the kind of setter ("successor", "operand") and
\* what the call did to the slot: "attach" (null to a target), "detach" (a
\* target to null), "move" (a target to another), "again" (the argument is
\* the target the slot held), "null again" (null to null).
NoSet == [op |-> "none", effect |-> "none"]

SetEffect(old, new, null) ==
  IF old = new THEN (IF old = null THEN "null again" ELSE "again")
  ELSE IF old = null THEN "attach"
  ELSE IF new = null THEN "detach"
  ELSE "move"

Init ==
  /\ variables_ = <<>>
  /\ call_instructions_ = <<>>
  /\ branch_instructions_ = <<>>
  /\ destruct_instructions_ = <<>>
  /\ dummy_instructions_ = <<>>
  /\ return_instructions_ = <<>>
  /\ params_ = <<>>
  /\ entry_ = NULL
  /\ validate_result = "none"
  /\ cursor = 0
  /\ query = NoQuery
  /\ edit = NoEdit
  /\ last_set = NoSet

PtrsOfKind(kind) == {<<kind, i>> : i \in 1..Len(Instrs[kind])}

FreeNewVariable(maxVars, names) ==
  /\ Len(variables_) < maxVars
  /\ \E data_type \in DataTypes, name \in names : new_variable(data_type, name)
  /\ UNCHANGED <<cursor, query, edit, last_set>>

FreeNewInstruction(fns, maxInstr) ==
  /\ NumInstructions < maxInstr
  /\ \/ \E fn \in fns : new_call_instruction(fn)
     \/ new_branch_instruction
     \/ new_destruct_instruction
     \/ new_dummy_instruction
     \/ new_return_instruction
  /\ UNCHANGED <<cursor, query, edit, last_set>>

FreeAddParameter(maxParams) ==
  /\ Len(params_) < maxParams
  /\ \E interface_type \in InterfaceTypes, variable \in VarPtrs :
       add_parameter(interface_type, variable)
  /\ UNCHANGED <<cursor, query, edit, last_set>>

FreeSetEntry ==
  /\ \E entry \in AllInstructions : set_entry(entry)
  /\ UNCHANGED <<cursor, query, edit, last_set>>

FreeSetName(names) ==
  /\ \E variable \in VarPtrs, name \in names : set_name(variable, name)
  /\ UNCHANGED <<cursor, query, edit, last_set>>

FreeSetSuccessor ==
  /\ \E instruction \in Targets :
       \/ \E this \in PtrsOfKind("Call") : Call_set_next(this, instruction)
       \/ \E this \in PtrsOfKind("Branch") : Branch_set_branch_true(this, instruction)
       \/ \E this \in PtrsOfKind("Branch") : Branch_set_branch_false(this, instruction)
       \/ \E this \in PtrsOfKind("Destruct") : Destruct_set_next(this, instruction)
       \/ \E this \in PtrsOfKind("Dummy") : Dummy_set_next(this, instruction)
  /\ UNCHANGED <<cursor, query, edit, last_set>>

FreeSetOperand ==
  /\ \/ \E this \in PtrsOfKind("Call") :
          \E param_index \in 1..Len(At(Instrs, this).params_), variable \in VarTargets :
            Call_set_param_variable(this, param_index, variable)
     \/ \E this \in PtrsOfKind("Call") :
          \E variables \in [1..Len(At(Instrs, this).params_) -> VarTargets] :
            Call_set_params(this, variables)
     \/ \E this \in PtrsOfKind("Branch"), variable \in VarTargets :
          Branch_set_condition(this, variable)
     \/ \E this \in PtrsOfKind("Destruct"), variable \in VarTargets :
          Destruct_set_variable(this, variable)
  /\ UNCHANGED <<cursor, query, edit, last_set>>

\* Spec: the instructions, the variables and their edges.
Next ==
  \/ FreeNewVariable(MaxVars, {""})
  \/ FreeNewInstruction(Fns, MaxInstr)
  \/ FreeSetEntry
  \/ FreeSetSuccessor
  \/ FreeSetOperand

Spec == Init /\ [][Next]_vars

\* SpecIds: every operation of the builder, names and parameters included,
\* on a procedure of MaxInstrIds instructions.
MaxInstrIds == 1
MaxVarsIds == 3
MaxParamsIds == 1

NextIds ==
  \/ FreeNewVariable(MaxVarsIds, Names)
  \/ FreeNewInstruction(Fns, MaxInstrIds)
  \/ FreeAddParameter(MaxParamsIds)
  \/ FreeSetEntry
  \/ FreeSetName(Names)
  \/ FreeSetSuccessor
  \/ FreeSetOperand

SpecIds == Init /\ [][NextIds]_vars

(* --------------------------------------------------- scripted callers *)

\* A scripted caller builds a procedure the way client code does: the
\* variables, then the procedure's parameters, then the instructions (kind
\* by kind), then every slot once, in the order of SlotSeq, then the entry,
\* and then it calls validate().  cursor counts the slots already written.

KindRank == [Call |-> 1, Branch |-> 2, Destruct |-> 3, Dummy |-> 4, Return |-> 5]

KindSlots == [Call |-> <<"params_", "next_">>,
              Branch |-> <<"condition_", "branch_true_", "branch_false_">>,
              Destruct |-> <<"variable_", "next_">>,
              Dummy |-> <<"next_">>,
              Return |-> <<>>]

SlotsOfList(kind) ==
  LET m == Len(KindSlots[kind])
  IN [j \in 1..(Len(Instrs[kind]) * m) |->
        [ptr |-> <<kind, ((j - 1) \div m) + 1>>,
         slot |-> KindSlots[kind][((j - 1) % m) + 1]]]

SlotSeq == SlotsOfList("Call") \o SlotsOfList("Branch") \o SlotsOfList("Destruct")
             \o SlotsOfList("Dummy")

ScriptNewVariable(maxVars) ==
  /\ Len(variables_) < maxVars
  /\ NumInstructions = 0
  /\ params_ = <<>>
  /\ new_variable("T", "")
  /\ UNCHANGED <<cursor, query, edit, last_set>>

RoleRank == [Input |-> 1, Mutable |-> 2, Output |-> 3]

\* sorted: the caller lists each variable at most once: the parameters are
\* the first variables, in the order of ids, and their roles are in the
\* order Input, Mutable, Output.
ScriptAddParameter(maxParams, sorted) ==
  /\ Len(params_) < maxParams
  /\ NumInstructions = 0
  /\ \E interface_type \in InterfaceTypes, variable \in VarPtrs :
       /\ sorted =>
            /\ variable = Len(params_) + 1
            /\ \A i \in 1..Len(params_) :
                 RoleRank[params_[i].type] <= RoleRank[interface_type]
       /\ add_parameter(interface_type, variable)
  /\ UNCHANGED <<cursor, query, edit, last_set>>

ScriptNewInstruction(fns, maxInstr, maxCalls, maxBranches) ==
  /\ NumInstructions < maxInstr
  /\ cursor = 0
  /\ entry_ = NULL
  /\ \/ /\ \A k \in Kinds : KindRank[k] > KindRank["Call"] => Len(Instrs[k]) = 0
        /\ Len(call_instructions_) < maxCalls
        /\ \E fn \in fns : new_call_instruction(fn)
     \/ /\ \A k \in Kinds : KindRank[k] > KindRank["Branch"] => Len(Instrs[k]) = 0
        /\ Len(branch_instructions_) < maxBranches
        /\ new_branch_instruction
     \/ /\ \A k \in Kinds : KindRank[k] > KindRank["Destruct"] => Len(Instrs[k]) = 0
        /\ new_destruct_instruction
     \/ /\ \A k \in Kinds : KindRank[k] > KindRank["Dummy"] => Len(Instrs[k]) = 0
        /\ new_dummy_instruction
     \/ new_return_instruction
  /\ UNCHANGED <<cursor, query, edit, last_set>>

\* nullable: the caller may also pass nullptr and leave the slot empty.
ScriptWire(nullable) ==
  /\ cursor < Len(SlotSeq)
  /\ entry_ = NULL
  /\ LET s == SlotSeq[cursor + 1]
         this == s.ptr
         instructions == IF nullable THEN Targets ELSE AllInstructions
         variables == IF nullable THEN VarTargets ELSE VarPtrs
     IN \/ /\ type_(this) = "Call" /\ s.slot = "params_"
           /\ Len(At(Instrs, this).params_) = 1
           /\ \E variable \in variables : Call_set_param_variable(this, 1, variable)
        \/ /\ type_(this) = "Call" /\ s.slot = "params_"
           /\ Len(At(Instrs, this).params_) > 1
           /\ \E vs \in [1..Len(At(Instrs, this).params_) -> variables] :
                Call_set_params(this, vs)
        \/ /\ type_(this) = "Call" /\ s.slot = "next_"
           /\ \E instruction \in instructions : Call_set_next(this, instruction)
        \/ /\ type_(this) = "Branch" /\ s.slot = "condition_"
           /\ \E variable \in variables : Branch_set_condition(this, variable)
        \/ /\ type_(this) = "Branch" /\ s.slot = "branch_true_"
           /\ \E instruction \in instructions : Branch_set_branch_true(this, instruction)
        \/ /\ type_(this) = "Branch" /\ s.slot = "branch_false_"
           /\ \E instruction \in instructions : Branch_set_branch_false(this, instruction)
        \/ /\ type_(this) = "Destruct" /\ s.slot = "variable_"
           /\ \E variable \in variables : Destruct_set_variable(this, variable)
        \/ /\ type_(this) = "Destruct" /\ s.slot = "next_"
           /\ \E instruction \in instructions : Destruct_set_next(this, instruction)
        \/ /\ type_(this) = "Dummy" /\ s.slot = "next_"
           /\ \E instruction \in instructions : Dummy_set_next(this, instruction)
  /\ cursor' = cursor + 1
  /\ UNCHANGED <<query, edit, last_set>>

ScriptSetEntry ==
  /\ cursor = Len(SlotSeq)
  /\ entry_ = NULL
  /\ \E entry \in AllInstructions : set_entry(entry)
  /\ UNCHANGED <<cursor, query, edit, last_set>>

\* needEntry: the caller validates only once the entry is set.
ScriptValidate(needEntry) ==
  /\ cursor = Len(SlotSeq)
  /\ needEntry => entry_ # NULL
  /\ validate_result = "none"
  /\ Validate
  /\ UNCHANGED <<cursor, query, edit, last_set>>

(* SpecA: complete procedures (no slot left empty, every variable listed   *)
(* at most once as a parameter) for the initialization analysis.           *)

MaxInstrA == 3
MaxCallsA == 2
MaxBranchesA == 1
MaxVarsA == 2
FnsA == { <<Output>>, <<Input, Output>> }

NextA ==
  \/ ScriptNewVariable(MaxVarsA)
  \/ ScriptAddParameter(MaxVarsA, TRUE)
  \/ ScriptNewInstruction(FnsA, MaxInstrA, MaxCallsA, MaxBranchesA)
  \/ ScriptWire(FALSE)
  \/ ScriptSetEntry
  \/ ScriptValidate(TRUE)

SpecA == Init /\ [][NextA]_vars

(* SpecV: procedures with empty slots, an unset entry and parameter lists  *)
(* that repeat a variable, for the structural stages of validate().        *)

MaxInstrV == 2
MaxVarsV == 1
MaxParamsV == 2
FnsV == { <<Output>>, <<Input, Input>> }

NextV ==
  \/ ScriptNewVariable(MaxVarsV)
  \/ ScriptAddParameter(MaxParamsV, FALSE)
  \/ ScriptNewInstruction(FnsV, MaxInstrV, MaxInstrV, MaxInstrV)
  \/ ScriptWire(TRUE)
  \/ ScriptSetEntry
  \/ ScriptValidate(FALSE)

SpecV == Init /\ [][NextV]_vars

(* SpecAlias: one instruction, a call of any function of up to             *)
(* MaxArity parameters, for the aliasing stage.                            *)

MaxArity == 3
MaxVarsAlias == 3
FnsAlias == UNION { [1..n -> InterfaceTypes] : n \in 1..MaxArity }

NextAlias ==
  \/ ScriptNewVariable(MaxVarsAlias)
  \/ ScriptAddParameter(1, TRUE)
  \/ ScriptNewInstruction(FnsAlias, 1, 1, 1)
  \/ ScriptWire(FALSE)
  \/ ScriptSetEntry
  \/ ScriptValidate(TRUE)

SpecAlias == Init /\ [][NextAlias]_vars

\* ScriptNewInstruction of a caller that creates at most maxOfKind
\* instructions of each kind.
ScriptNewInstructionCapped(fns, maxInstr, maxOfKind) ==
  /\ ScriptNewInstruction(fns, maxInstr, maxOfKind, maxOfKind)
  /\ Len(destruct_instructions_') <= maxOfKind
  /\ Len(dummy_instructions_') <= maxOfKind
  /\ Len(return_instructions_') <= maxOfKind

(* SpecLoop: complete procedures of up to MaxInstrLoop instructions, at    *)
(* most MaxOfKindLoop of each kind, for loops through the entry.           *)

MaxInstrLoop == 4
MaxOfKindLoop == 1
MaxVarsLoop == 2
MaxParamsLoop == 1
FnsLoop == { <<Output>> }

NextLoop ==
  \/ ScriptNewVariable(MaxVarsLoop)
  \/ ScriptAddParameter(MaxParamsLoop, TRUE)
  \/ ScriptNewInstructionCapped(FnsLoop, MaxInstrLoop, MaxOfKindLoop)
  \/ ScriptWire(FALSE)
  \/ ScriptSetEntry
  \/ ScriptValidate(TRUE)

SpecLoop == Init /\ [][NextLoop]_vars

(* The initialization analysis step by step: a caller starts one query on  *)
(* a complete procedure, the loop runs one iteration per step, and the     *)
(* query returns when the stack is empty.  Nothing changes the procedure   *)
(* while the query runs.                                                   *)

QueryBegin ==
  /\ query = NoQuery
  /\ cursor = Len(SlotSeq)
  /\ entry_ # NULL
  /\ \E target_instruction \in AllInstructions, target_variable \in VarPtrs :
       LET q == analysis_begin(target_instruction, target_variable)
       IN query' = [running |-> TRUE, finished |-> FALSE,
                    target_instruction |-> target_instruction,
                    target_variable |-> target_variable,
                    q |-> q,
                    pushed |-> q.instructions_to_check,
                    popped |-> <<>>, examined |-> <<>>]
  /\ UNCHANGED <<variables_, call_instructions_, branch_instructions_,
                 destruct_instructions_, dummy_instructions_, return_instructions_,
                 params_, entry_, validate_result, cursor, edit, last_set>>

QueryStep ==
  /\ query.running
  /\ query.q.instructions_to_check # <<>>
  /\ LET n == Len(query.q.instructions_to_check)
         instruction == query.q.instructions_to_check[n]
         q == analysis_step(query.q, query.target_variable)
     IN query' = [query EXCEPT
                    !.q = q,
                    !.popped = Append(@, instruction),
                    !.examined = IF instruction \in query.q.checked_instructions
                                   THEN @ ELSE Append(@, instruction),
                    !.pushed = @ \o SubSeq(q.instructions_to_check, n,
                                           Len(q.instructions_to_check))]
  /\ UNCHANGED <<variables_, call_instructions_, branch_instructions_,
                 destruct_instructions_, dummy_instructions_, return_instructions_,
                 params_, entry_, validate_result, cursor, edit, last_set>>

QueryEnd ==
  /\ query.running
  /\ query.q.instructions_to_check = <<>>
  /\ query' = [query EXCEPT !.running = FALSE, !.finished = TRUE]
  /\ UNCHANGED <<variables_, call_instructions_, branch_instructions_,
                 destruct_instructions_, dummy_instructions_, return_instructions_,
                 params_, entry_, validate_result, cursor, edit, last_set>>

(* SpecQuery: one query on a complete procedure of up to MaxInstrQuery     *)
(* instructions over MaxVarsQuery variables.  SpecQueryFair: the loop,     *)
(* once entered, keeps running: nothing else runs in the thread.           *)

MaxInstrQuery == 3
MaxVarsQuery == 1
FnsQuery == { <<Output>> }

NextQuery ==
  \/ ScriptNewVariable(MaxVarsQuery)
  \/ ScriptNewInstruction(FnsQuery, MaxInstrQuery, MaxInstrQuery, MaxInstrQuery)
  \/ ScriptWire(FALSE)
  \/ ScriptSetEntry
  \/ QueryBegin
  \/ QueryStep
  \/ QueryEnd

SpecQuery == Init /\ [][NextQuery]_vars

SpecQueryFair == SpecQuery /\ WF_vars(QueryStep) /\ WF_vars(QueryEnd)

(* SpecDot: procedures of up to MaxInstrDot instructions with any wiring   *)
(* of the successor slots, null included, and no operands, for to_dot.    *)

MaxInstrDot == 3
FnsDot == { <<Output>> }

NextDot ==
  \/ ScriptNewInstruction(FnsDot, MaxInstrDot, MaxInstrDot, MaxInstrDot)
  \/ ScriptWire(TRUE)
  \/ ScriptSetEntry

SpecDot == Init /\ [][NextDot]_vars

(* -------------------------------------------- block discovery, to_dot *)

\* has_to_be_block_begin without the test for a Branch predecessor.
has_to_be_block_begin_ignores_branch(instruction) ==
  \/ entry_ = instruction
  \/ Len(prev_(instruction)) # 1

\* has_to_be_block_begin without the test for the entry.
has_to_be_block_begin_ignores_entry(instruction) ==
  \/ Len(prev_(instruction)) # 1
  \/ type_(prev_(instruction)[1]) = "Branch"

has_to_be_block_begin(instruction) ==
  \/ entry_ = instruction
  \/ Len(prev_(instruction)) # 1
  \/ type_(prev_(instruction)[1]) = "Branch"

\* The while loop of get_first_instruction_in_block, from current.
RECURSIVE first_instruction_walk(_, _)
first_instruction_walk(current, representative) ==
  IF has_to_be_block_begin(current) THEN current
  ELSE LET previous == prev_(current)[1]
       IN IF previous = representative THEN previous
          ELSE first_instruction_walk(previous, representative)

get_first_instruction_in_block(representative) ==
  first_instruction_walk(representative, representative)

get_next_instruction_in_block(instruction, block_begin) ==
  LET next == IF type_(instruction) \in {"Call", "Destruct", "Dummy"}
                THEN At(Instrs, instruction).next_
                ELSE NULL
  IN IF next = NULL THEN NULL
     ELSE IF next = block_begin THEN NULL
     ELSE IF has_to_be_block_begin(next) THEN NULL
     ELSE next

\* The for loop of get_instructions_in_block, from current.
RECURSIVE block_from(_, _, _)
block_from(current, begin, instructions) ==
  IF current = NULL THEN instructions
  ELSE block_from(get_next_instruction_in_block(current, begin), begin,
                  Append(instructions, current))

get_instructions_in_block(representative) ==
  LET begin == get_first_instruction_in_block(representative)
  IN block_from(begin, begin, <<>>)

\* The while loop of get_first_instruction_in_block with a record of the
\* instructions it has been at: ends is FALSE when the loop comes back to
\* one of them without leaving.
RECURSIVE first_instruction_visits(_, _, _)
first_instruction_visits(current, representative, visited) ==
  IF has_to_be_block_begin(current) THEN [ends |-> TRUE, visited |-> visited]
  ELSE LET previous == prev_(current)[1]
       IN IF previous = representative THEN [ends |-> TRUE, visited |-> visited]
          ELSE IF \E k \in 1..Len(visited) : visited[k] = previous
            THEN [ends |-> FALSE, visited |-> visited]
          ELSE first_instruction_visits(previous, representative,
                                        Append(visited, previous))

\* The for loop of get_instructions_in_block with the same record.
RECURSIVE block_visits(_, _, _)
block_visits(current, begin, visited) ==
  IF current = NULL THEN [ends |-> TRUE, visited |-> visited]
  ELSE IF \E k \in 1..Len(visited) : visited[k] = current
    THEN [ends |-> FALSE, visited |-> visited]
  ELSE block_visits(get_next_instruction_in_block(current, begin), begin,
                    Append(visited, current))

\* all_instructions of to_dot: the five lists one after the other.
all_instructions ==
  [i \in 1..Len(call_instructions_) |-> <<"Call", i>>]
    \o [i \in 1..Len(branch_instructions_) |-> <<"Branch", i>>]
    \o [i \in 1..Len(destruct_instructions_) |-> <<"Destruct", i>>]
    \o [i \in 1..Len(dummy_instructions_) |-> <<"Dummy", i>>]
    \o [i \in 1..Len(return_instructions_) |-> <<"Return", i>>]

\* The first loop of to_dot from the i-th representative on.  d holds the
\* blocks in the order of their nodes, handled_instructions, and add_new_failed:
\* an add_new of handled_instructions, dot_nodes_by_begin or dot_nodes_by_end
\* met a key that was there already.
RECURSIVE discover_blocks(_, _)
discover_blocks(i, d) ==
  IF i > Len(all_instructions) THEN d
  ELSE LET representative == all_instructions[i]
       IN IF representative \in d.handled_instructions THEN discover_blocks(i + 1, d)
          ELSE LET block_instructions == get_instructions_in_block(representative)
                   members == {block_instructions[k] : k \in 1..Len(block_instructions)}
                   clash ==
                     \/ members \cap d.handled_instructions # {}
                     \/ Cardinality(members) # Len(block_instructions)
                     \/ \E k \in 1..Len(d.blocks) :
                          \/ d.blocks[k][1] = block_instructions[1]
                          \/ d.blocks[k][Len(d.blocks[k])]
                               = block_instructions[Len(block_instructions)]
               IN discover_blocks(i + 1,
                    [blocks |-> Append(d.blocks, block_instructions),
                     handled_instructions |-> d.handled_instructions \cup members,
                     add_new_failed |-> d.add_new_failed \/ clash])

dot_blocks ==
  discover_blocks(1, [blocks |-> <<>>, handled_instructions |-> {}, add_new_failed |-> FALSE])

\* The lambda create_edge: the node an edge to to_instruction ends in.  A
\* lookup of an instruction that begins no block has no defined result.
create_edge(blocks, from_node, slot, to_instruction) ==
  [from |-> from_node, slot |-> slot,
   to |-> IF to_instruction = NULL THEN [node |-> "missing"]
          ELSE IF \E k \in 1..Len(blocks) : blocks[k][1] = to_instruction
            THEN [node |-> "block",
                  index |-> CHOOSE k \in 1..Len(blocks) : blocks[k][1] = to_instruction]
          ELSE [node |-> "lookup_failed"]]

\* The edges of the block with node k, by the type of its last instruction.
block_edges(blocks, k) ==
  LET from_instruction == blocks[k][Len(blocks[k])]
      from_node == [node |-> "block", index |-> k]
  IN CASE type_(from_instruction) \in {"Call", "Destruct", "Dummy"} ->
            <<create_edge(blocks, from_node, "next_", At(Instrs, from_instruction).next_)>>
       [] type_(from_instruction) = "Branch" ->
            <<create_edge(blocks, from_node, "branch_true_",
                          At(Instrs, from_instruction).branch_true_),
              create_edge(blocks, from_node, "branch_false_",
                          At(Instrs, from_instruction).branch_false_)>>
       [] OTHER -> <<>>

RECURSIVE all_block_edges(_, _)
all_block_edges(blocks, k) ==
  IF k > Len(blocks) THEN <<>>
  ELSE block_edges(blocks, k) \o all_block_edges(blocks, k + 1)

\* to_dot as a graph: the block nodes, the edges of the blocks, the edge of
\* the Entry node last.
to_dot ==
  LET d == dot_blocks
  IN [blocks |-> d.blocks,
      add_new_failed |-> d.add_new_failed,
      edges |-> all_block_edges(d.blocks, 1)
                  \o <<create_edge(d.blocks, [node |-> "Entry"], "entry_", entry_)>>]

(* ================================================================ claims *)

\* The number of successor slots of instruction I that hold J.
SuccCount(I, J) == Cardinality({slot \in SuccSlots(type_(I)) : At(Instrs, I)[slot] = J})

\* The number of operand slots of instruction I that reference variable V.
OperandCount(I, V) ==
  CASE type_(I) = "Call" -> Count(At(Instrs, I).params_, V)
    [] type_(I) = "Branch" -> IF At(Instrs, I).condition_ = V THEN 1 ELSE 0
    [] type_(I) = "Destruct" -> IF At(Instrs, I).variable_ = V THEN 1 ELSE 0
    [] OTHER -> 0

\* C1: bidirectional edge consistency.  In every state the free builder
\* reaches, for every pair of instructions (I, J) the number of successor
\* slots of I holding J equals the number of occurrences of I in J's prev_
\* list, and prev_ lists hold nothing but instructions of the procedure.
C1_EdgeConsistency ==
  \A J \in AllInstructions :
    /\ \A k \in 1..Len(prev_(J)) : prev_(J)[k] \in AllInstructions
    /\ \A I \in AllInstructions : SuccCount(I, J) = Count(prev_(J), I)

\* A branch whose two successors are one instruction J, which is its own
\* successor too: J's prev_ holds the branch twice and J once.
C1_Witness ==
  \E b \in PtrsOfKind("Branch") : \E J \in AllInstructions :
    /\ J # b
    /\ At(Instrs, b).branch_true_ = J
    /\ At(Instrs, b).branch_false_ = J
    /\ SuccCount(J, J) = 1
    /\ Len(prev_(J)) = 3

\* C2: variable-user consistency.  In every state the free builder reaches,
\* for every instruction I and variable V the number of slots of I (call
\* parameters, branch condition, destruct target) referencing V equals the
\* number of occurrences of I in V's users_ list, and users_ lists hold
\* nothing but instructions of the procedure.
C2_UserConsistency ==
  \A V \in VarPtrs :
    /\ \A k \in 1..Len(variables_[V].users_) : variables_[V].users_[k] \in AllInstructions
    /\ \A I \in AllInstructions : OperandCount(I, V) = Count(variables_[V].users_, I)

\* A call that holds one variable in both of its parameter slots, next to a
\* second user of that variable.
C2_Witness ==
  \E c \in PtrsOfKind("Call") : \E V \in VarPtrs :
    /\ OperandCount(c, V) = 2
    /\ Len(variables_[V].users_) = 3

\* The ids of the variables are 0 .. n-1 in the order of creation.
IdsDense == \A k \in 1..Len(variables_) : variables_[k].id_ = k - 1

\* A step keeps every variable and the id it has.
IdsKept ==
  /\ Len(variables_') >= Len(variables_)
  /\ \A k \in 1..Len(variables_) : variables_'[k].id_ = variables_[k].id_

\* C3: id density.  With n variables the ids are exactly 0 .. n-1, the k-th
\* created variable has id k-1, and no operation of the builder (new_variable,
\* new_*_instruction, set_*, add_parameter, set_name) changes an id.
C3_IdDensity == IdsDense /\ [][IdsKept /\ IdsDense']_vars

\* Three variables, the first renamed or named, a parameter, an instruction
\* that uses the last variable.
C3_Witness ==
  /\ Len(variables_) = 3
  /\ variables_[1].name_ = "x"
  /\ variables_[2].name_ = ""
  /\ Len(params_) = 1
  /\ variables_[3].users_ # <<>>
  /\ entry_ # NULL

(* ------------------------------------------ the control-flow graph *)

\* The successors of P: the instructions its successor slots hold.
Succs(P) == {At(Instrs, P)[slot] : slot \in SuccSlots(type_(P))} \ {NULL}

\* The predecessors of P in the control-flow graph.
Preds(P) == {Q \in AllInstructions : P \in Succs(Q)}

\* The producer/consumer semantics: P is a call with V in an Output slot;
\* P is Destruct(V).
Writes(P, V) ==
  /\ type_(P) = "Call"
  /\ \E k \in 1..Len(At(Instrs, P).params_) :
       At(Instrs, P).params_[k] = V /\ At(Instrs, P).fn_[k] = Output

Destructs(P, V) == type_(P) = "Destruct" /\ At(Instrs, P).variable_ = V

\* P uses V in a place where V has to be initialized: an Input or Mutable
\* parameter of a call, a branch condition, a destruct target.
Uses(P, V) ==
  CASE type_(P) = "Call" ->
         \E k \in 1..Len(At(Instrs, P).params_) :
           At(Instrs, P).params_[k] = V /\ At(Instrs, P).fn_[k] \in {Input, Mutable}
    [] type_(P) = "Branch" -> At(Instrs, P).condition_ = V
    [] type_(P) = "Destruct" -> At(Instrs, P).variable_ = V
    [] OTHER -> FALSE

\* The entry state: V is initialized on entry iff the caller passes it as
\* an Input or Mutable parameter.
EntryInitialized(V) ==
  \E i \in 1..Len(params_) :
    params_[i].variable = V /\ params_[i].type \in {Input, Mutable}

MutableOrOutputParameter(V) ==
  \E i \in 1..Len(params_) :
    params_[i].variable = V /\ params_[i].type \in {Mutable, Output}

\* Every instruction from which I is reached by one or more edges.
RECURSIVE BackAll(_, _)
BackAll(frontier, seen) ==
  IF frontier \subseteq seen THEN seen
  ELSE LET new == frontier \ seen
       IN BackAll(UNION {Preds(P) : P \in new}, seen \cup new)

Ancestors(I) == BackAll(Preds(I), {})

\* The instructions a backward walk from I meets when it stops at every
\* instruction that writes or destructs V.
RECURSIVE BackWalk(_, _, _)
BackWalk(frontier, seen, V) ==
  IF frontier \subseteq seen THEN seen
  ELSE LET new == frontier \ seen
       IN BackWalk(UNION {Preds(P) : P \in {Q \in new : ~Writes(Q, V) /\ ~Destructs(Q, V)}},
                   seen \cup new, V)

Met(I, V) == BackWalk(Preds(I), {}, V)

\* Some backward walk from I ends in a producer of V.
MayBeInitialized(I, V) ==
  \/ I = entry_ /\ EntryInitialized(V)
  \/ \E P \in Met(I, V) :
       \/ Writes(P, V)
       \/ P = entry_ /\ ~Destructs(P, V) /\ EntryInitialized(V)

\* The execution of the procedure as far as V goes: the pairs <<I, b>> such
\* that some path from the entry arrives at I with V initialized (b) or
\* uninitialized (~b).
After(P, V, b) == IF Writes(P, V) THEN TRUE ELSE IF Destructs(P, V) THEN FALSE ELSE b

RECURSIVE Forward(_, _, _)
Forward(frontier, seen, V) ==
  IF frontier \subseteq seen THEN seen
  ELSE LET new == frontier \ seen
       IN Forward(UNION { {<<Q, After(c[1], V, c[2])>> : Q \in Succs(c[1])} : c \in new },
                  seen \cup new, V)

Arrives(V) == IF entry_ = NULL THEN {} ELSE Forward({<<entry_, EntryInitialized(V)>>}, {}, V)

(* -------------------------------------------------- claims C4 .. C10 *)

OperandMissing(I) ==
  CASE type_(I) = "Call" ->
         \E k \in 1..Len(At(Instrs, I).params_) : At(Instrs, I).params_[k] = NULLV
    [] type_(I) = "Branch" -> At(Instrs, I).condition_ = NULLV
    [] type_(I) = "Destruct" -> At(Instrs, I).variable_ = NULLV
    [] OTHER -> FALSE

SuccessorMissing(I) == \E slot \in SuccSlots(type_(I)) : At(Instrs, I)[slot] = NULL

HasEmptySlot ==
  \/ entry_ = NULL
  \/ \E I \in AllInstructions : SuccessorMissing(I) \/ OperandMissing(I)

\* C4: validate() returns false whenever the entry is unset, a Call,
\* Destruct or Dummy has no next, a Branch lacks branch_true or branch_false,
\* or a call parameter, branch condition or destruct target is null, for
\* every instruction of the lists, reachable or not; a Return has no
\* successor to check, and a procedure with no empty slot passes the first
\* three stages.
C4_EmptySlotsRejected ==
  validate_result # "none" =>
    /\ HasEmptySlot => validate_result = "false"
    /\ ~HasEmptySlot =>
         /\ validate_all_instruction_pointers_set
         /\ validate_all_params_provided

\* validate() has returned false for a procedure whose entry is a Return and
\* whose only defect is an unreachable Dummy without next.
C4_Witness ==
  /\ validate_result = "false"
  /\ entry_ # NULL
  /\ type_(entry_) = "Return"
  /\ \E d \in PtrsOfKind("Dummy") : At(Instrs, d).next_ = NULL /\ prev_(d) = <<>>
  /\ validate_all_params_provided
  /\ validate_same_variables_in_one_call
  /\ validate_parameters
  /\ validate_initialization

\* A variable that occupies two or more slots of the call occupies Input
\* slots only.
AliasFree(c) ==
  \A V \in VarPtrs :
    Count(c.params_, V) >= 2 =>
      \A k \in 1..Len(c.params_) : c.params_[k] = V => c.fn_[k] = Input

\* C5: aliasing within one call.  The aliasing stage passes exactly when, for
\* every call, every variable in two or more parameter slots of the call is
\* in Input slots only; validate() returns false when a variable in a Mutable
\* or Output slot is in another slot of the same call.
C5_Aliasing ==
  validate_result # "none" =>
    /\ validate_same_variables_in_one_call
         <=> \A i \in 1..Len(call_instructions_) : AliasFree(call_instructions_[i])
    /\ (\E i \in 1..Len(call_instructions_) : ~AliasFree(call_instructions_[i]))
         => validate_result = "false"

\* validate() has returned true for a call of a function (Input, Input,
\* Output) with one variable in both Input slots.
C5_Witness ==
  /\ validate_result = "true"
  /\ \E i \in 1..Len(call_instructions_) :
       LET c == call_instructions_[i]
       IN /\ c.fn_ = <<Input, Input, Output>>
          /\ c.params_[1] = c.params_[2]
          /\ c.params_[3] # c.params_[1]

HasDuplicateParameter ==
  \E i, j \in 1..Len(params_) : i < j /\ params_[i].variable = params_[j].variable

\* C6: procedure-parameter uniqueness.  validate() returns false for every
\* procedure whose parameter list names a variable more than once, whatever
\* the roles; a procedure that validates lists each variable at most once.
C6_ParameterUniqueness ==
  validate_result # "none" /\ HasDuplicateParameter => validate_result = "false"

\* validate() has returned false for a procedure that lists one variable
\* with two different roles and passes every other stage.
C6_Witness ==
  /\ validate_result = "false"
  /\ \E i, j \in 1..Len(params_) :
       /\ i < j
       /\ params_[i].variable = params_[j].variable
       /\ params_[i].type # params_[j].type
  /\ entry_ # NULL
  /\ validate_all_instruction_pointers_set
  /\ validate_all_params_provided
  /\ validate_same_variables_in_one_call
  /\ validate_initialization

\* A use check of the initialization stage fails.
UseCheckFails ==
  \E I \in AllInstructions : \E V \in VarPtrs :
    \/ /\ Uses(I, V)
       /\ ~find_initialization_state_before_instruction(I, V).can_be_initialized
    \/ /\ Writes(I, V)
       /\ ~find_initialization_state_before_instruction(I, V).can_be_uninitialized

\* A call reads a variable that the caller does not initialize and that no
\* call writes on any backward path.
ReadsNeverWritten ==
  \E I \in PtrsOfKind("Call") : \E V \in VarPtrs :
    /\ Uses(I, V)
    /\ ~EntryInitialized(V)
    /\ \A P \in Ancestors(I) : ~Writes(P, V)

\* C7: the use checks.  validate() returns false if, for a Destruct(V), a
\* Branch on V or a Call with V in an Input or Mutable slot, the init state
\* of V before the instruction has can_be_initialized = false, or, for a Call
\* with V in an Output slot, can_be_uninitialized = false; a call that reads
\* a variable the caller does not initialize and no call writes on a
\* backward path fails validation.
C7_UseChecks ==
  validate_result # "none" =>
    (UseCheckFails \/ ReadsNeverWritten => validate_result = "false")

\* validate() has returned false for a procedure whose only defect is a call
\* that reads a variable nothing initializes.
C7_Witness ==
  /\ validate_result = "false"
  /\ validate_same_variables_in_one_call
  /\ validate_parameters
  /\ validate_initialization_returns
  /\ ReadsNeverWritten

\* A return check of the initialization stage fails.
ReturnCheckFails ==
  \E R \in PtrsOfKind("Return") : \E V \in VarPtrs :
    LET state == find_initialization_state_before_instruction(R, V)
    IN IF MutableOrOutputParameter(V)
         THEN ~state.can_be_initialized
         ELSE ~state.can_be_uninitialized

\* An Input parameter that nothing destructs on a backward path of a Return.
InputNeverDestructed ==
  \E R \in PtrsOfKind("Return") : \E V \in VarPtrs :
    /\ EntryInitialized(V)
    /\ ~MutableOrOutputParameter(V)
    /\ \A P \in Ancestors(R) : ~Destructs(P, V)

C9_AnalysisSound ==
  validate_result # "none" =>
    \A V \in VarPtrs :
      LET arrives == Arrives(V)
      IN \A I \in AllInstructions :
           LET state == find_initialization_state_before_instruction(I, V)
           IN /\ <<I, TRUE>> \in arrives => state.can_be_initialized
              /\ <<I, FALSE>> \in arrives => state.can_be_uninitialized
              /\ state = InitState0 => <<I, TRUE>> \notin arrives /\ <<I, FALSE>> \notin arrives

\* A join: a branch that is the entry, one side of which goes through a call
\* that writes V, the other straight to I; both bits are set before I.
C9_Witness ==
  /\ validate_result # "none"
  /\ \E V \in VarPtrs : \E I \in AllInstructions : \E b \in PtrsOfKind("Branch") :
       \E c \in PtrsOfKind("Call") :
       /\ b = entry_
       /\ Succs(b) = {c, I}
       /\ c # I
       /\ Writes(c, V)
       /\ Succs(c) = {I}
       /\ <<I, TRUE>> \in Arrives(V)
       /\ <<I, FALSE>> \in Arrives(V)
       /\ find_initialization_state_before_instruction(I, V)
            = [can_be_initialized |-> TRUE, can_be_uninitialized |-> TRUE]

\* Some path from the entry arrives at a use of V with V uninitialized.
UseBeforeInit ==
  \E V \in VarPtrs : \E I \in AllInstructions :
    Uses(I, V) /\ <<I, FALSE>> \in Arrives(V)

MayBeUninitialized(I, V) ==
  \/ I = entry_ /\ ~EntryInitialized(V)
  \/ \E P \in Met(I, V) :
       \/ Destructs(P, V)
       \/ P = entry_ /\ ~Writes(P, V) /\ ~EntryInitialized(V)

\* Some path from the entry arrives at a Return with a variable initialized
\* that is not a Mutable or Output parameter.
LeakAtReturn ==
  \E R \in PtrsOfKind("Return") : \E V \in VarPtrs :
    ~MutableOrOutputParameter(V) /\ <<R, TRUE>> \in Arrives(V)

InitCheckFails(I, V) ==
  LET state == find_initialization_state_before_instruction(I, V)
  IN \/ Uses(I, V) /\ ~state.can_be_initialized
     \/ Writes(I, V) /\ ~state.can_be_uninitialized
     \/ /\ type_(I) = "Return"
        /\ IF MutableOrOutputParameter(V)
             THEN ~state.can_be_initialized
             ELSE ~state.can_be_uninitialized

StructuralStagesPass ==
  /\ entry_ # NULL
  /\ validate_all_instruction_pointers_set
  /\ validate_all_params_provided
  /\ validate_same_variables_in_one_call
  /\ validate_parameters

\* C12 as stated: a check on an instruction whose init state is (false,
\* false) counts as satisfied, so a procedure that passes the structural
\* stages and every initialization check whose state is not (false, false)
\* passes validate().
C12_UnreachableVacuouslyValid ==
  (/\ validate_result # "none"
   /\ StructuralStagesPass
   /\ \A I \in AllInstructions : \A V \in VarPtrs :
        InitCheckFails(I, V) =>
          find_initialization_state_before_instruction(I, V) = InitState0)
  => validate_result = "true"

(* ------------------------------------------------ straight-line code *)

\* The instructions met from p along next_, up to the first Return, the
\* first null or the first instruction met before.
RECURSIVE Chain(_, _)
Chain(p, acc) ==
  IF p = NULL \/ (\E k \in 1..Len(acc) : acc[k] = p) \/ type_(p) = "Branch" THEN acc
  ELSE IF type_(p) = "Return" THEN Append(acc, p)
  ELSE Chain(At(Instrs, p).next_, Append(acc, p))

EntryChain == Chain(entry_, <<>>)

\* A straight-line procedure: every instruction is on the chain from the
\* entry, exactly once, and the last one is a Return.
StraightLine ==
  /\ entry_ # NULL
  /\ Len(EntryChain) = NumInstructions
  /\ type_(EntryChain[Len(EntryChain)]) = "Return"

\* The positions of the chain that read, write and destruct V.
ReadsAt(V) ==
  {k \in 1..Len(EntryChain) : type_(EntryChain[k]) = "Call" /\ Uses(EntryChain[k], V)}
WritesAt(V) == {k \in 1..Len(EntryChain) : Writes(EntryChain[k], V)}
DestructsAt(V) == {k \in 1..Len(EntryChain) : Destructs(EntryChain[k], V)}

Role(V, role) == \E i \in 1..Len(params_) : params_[i].variable = V /\ params_[i].type = role
IsParameter(V) == \E i \in 1..Len(params_) : params_[i].variable = V

\* V is read and then destructed: some call reads it, one Destruct follows
\* every read, and nothing writes it.
ReadThenDestructed(V) ==
  /\ ReadsAt(V) # {}
  /\ WritesAt(V) = {}
  /\ Cardinality(DestructsAt(V)) = 1
  /\ \A r \in ReadsAt(V) : \A d \in DestructsAt(V) : r < d

\* V is written exactly once by a call, in one slot, not read before and
\* not destructed.
WrittenOnce(V) ==
  /\ Cardinality(WritesAt(V)) = 1
  /\ \A w \in WritesAt(V) :
       /\ Count(At(Instrs, EntryChain[w]).params_, V) = 1
       /\ \A r \in ReadsAt(V) : w < r
  /\ DestructsAt(V) = {}

\* The identity scenario: parameters (Input, a), (Output, b) and the body
\* Call F(in a, out b) -> Destruct a -> Return.
IdentityScenario ==
  /\ Len(variables_) = 2
  /\ params_ = <<[type |-> Input, variable |-> 1], [type |-> Output, variable |-> 2]>>
  /\ NumInstructions = 3
  /\ StraightLine
  /\ type_(EntryChain[1]) = "Call"
  /\ At(Instrs, EntryChain[1]).fn_ = <<Input, Output>>
  /\ At(Instrs, EntryChain[1]).params_ = <<1, 2>>
  /\ Destructs(EntryChain[2], 1)

\* The straight-line procedures of the claim as stated.
StraightLineAsStated ==
  /\ StraightLine
  /\ validate_parameters
  /\ \A V \in VarPtrs :
       /\ Role(V, Input) => ReadThenDestructed(V)
       /\ Role(V, Output) => WrittenOnce(V)

MutableKept(V) == WritesAt(V) = {} /\ DestructsAt(V) = {}

\* A variable that is not a parameter is left alone, or is written exactly
\* once, not read before, and destructed once after the write and every read.
LocalScoped(V) ==
  \/ variables_[V].users_ = <<>>
  \/ /\ Cardinality(WritesAt(V)) = 1
     /\ \A w \in WritesAt(V) :
          /\ Count(At(Instrs, EntryChain[w]).params_, V) = 1
          /\ \A r \in ReadsAt(V) : w < r
          /\ \A d \in DestructsAt(V) : w < d
     /\ Cardinality(DestructsAt(V)) = 1
     /\ \A r \in ReadsAt(V) : \A d \in DestructsAt(V) : r < d

PrevSet(P) == {prev_(P)[k] : k \in 1..Len(prev_(P))}

\* The instructions met walking prev_ edges backwards, not walking on from
\* an instruction that writes or destructs V.
RECURSIVE PrevWalk(_, _, _)
PrevWalk(frontier, seen, V) ==
  IF frontier \subseteq seen THEN seen
  ELSE LET new == frontier \ seen
       IN PrevWalk(UNION {PrevSet(P) : P \in {Q \in new : ~Writes(Q, V) /\ ~Destructs(Q, V)}},
                   seen \cup new, V)

MetByPrev(I, V) == PrevWalk(PrevSet(I), {}, V)

\* The walk reaches the entry: I is the entry, or the entry is met and does
\* not itself write or destruct V.
ReachesEntry(I, V) ==
  \/ I = entry_
  \/ \E P \in MetByPrev(I, V) : P = entry_ /\ ~Writes(P, V) /\ ~Destructs(P, V)

\* C18: exactness of the init state.  For every instruction I and variable
\* V, can_be_initialized is true exactly when the backward walk over prev_
\* from I, through instructions that neither write nor destruct V, meets a
\* call that writes V in an Output slot or reaches the entry with V an Input
\* or Mutable parameter; can_be_uninitialized is true exactly when the walk
\* meets a Destruct(V) or reaches the entry with V an Output parameter or
\* not a parameter.
C18_InitStateExact ==
  validate_result # "none" =>
    \A I \in AllInstructions : \A V \in VarPtrs :
      LET state == find_initialization_state_before_instruction(I, V)
      IN /\ state.can_be_initialized <=>
              \/ \E P \in MetByPrev(I, V) : Writes(P, V)
              \/ ReachesEntry(I, V) /\ (Role(V, Input) \/ Role(V, Mutable))
         /\ state.can_be_uninitialized <=>
              \/ \E P \in MetByPrev(I, V) : Destructs(P, V)
              \/ ReachesEntry(I, V) /\ ~(Role(V, Input) \/ Role(V, Mutable))

\* The walk from a Destruct(V) passes a call that reads V and a Destruct of
\* another variable, neither of which stops it, and ends in the entry where
\* the caller has initialized V.
C18_Witness ==
  /\ validate_result # "none"
  /\ \E I \in PtrsOfKind("Destruct") : \E V \in VarPtrs :
       /\ Destructs(I, V)
       /\ \E c \in MetByPrev(I, V) : type_(c) = "Call" /\ Uses(c, V) /\ ~Writes(c, V)
       /\ \E d \in MetByPrev(I, V) : type_(d) = "Destruct" /\ ~Destructs(d, V) /\ d = entry_
       /\ Role(V, Input)
       /\ find_initialization_state_before_instruction(I, V).can_be_initialized

(* ------------------------------------------------------ the loop scenario *)

\* entry = Branch cond -> (true: Call F(out v) -> Destruct v -> back to the
\* Branch) (false: Return), with cond a Mutable parameter and v a variable
\* that is not a parameter.
LoopScenario ==
  /\ Len(variables_) = 2
  /\ params_ = <<[type |-> Mutable, variable |-> 1]>>
  /\ Len(call_instructions_) = 1 /\ Len(branch_instructions_) = 1
  /\ Len(destruct_instructions_) = 1 /\ Len(return_instructions_) = 1
  /\ Len(dummy_instructions_) = 0
  /\ entry_ = <<"Branch", 1>>
  /\ branch_instructions_[1].condition_ = 1
  /\ branch_instructions_[1].branch_true_ = <<"Call", 1>>
  /\ branch_instructions_[1].branch_false_ = <<"Return", 1>>
  /\ call_instructions_[1].fn_ = <<Output>>
  /\ call_instructions_[1].params_ = <<2>>
  /\ call_instructions_[1].next_ = <<"Destruct", 1>>
  /\ destruct_instructions_[1].variable_ = 2
  /\ destruct_instructions_[1].next_ = <<"Branch", 1>>

\* C16: for the loop scenario validate() terminates and returns true; the
\* back edge into the entry does not hide the entry state: cond is
\* initialized, and v uninitialized, before the Branch and before the Return.
C16_LoopScenarioValid ==
  validate_result # "none" /\ LoopScenario =>
    /\ validate_result = "true"
    /\ \A I \in {<<"Branch", 1>>, <<"Return", 1>>} :
         /\ find_initialization_state_before_instruction(I, 1)
              = [can_be_initialized |-> TRUE, can_be_uninitialized |-> FALSE]
         /\ find_initialization_state_before_instruction(I, 2)
              = [can_be_initialized |-> FALSE, can_be_uninitialized |-> TRUE]

\* validate() has returned for the loop scenario.
C16_Witness == validate_result # "none" /\ LoopScenario

(* ------------------------------------------------- the edges of to_dot *)

LastOfBlock(blocks, k) == blocks[k][Len(blocks[k])]

\* C17: the edge set of to_dot.  The last edge, and no other, leaves the
\* Entry node, and ends in the node of the block that begins at entry_ (in a
\* "missing" node when entry_ is null).  Every other edge leaves the node of
\* a block for a successor slot of the block's last instruction (next_ of a
\* Call, Destruct or Dummy, branch_true_ and branch_false_ of a Branch, none
\* for a Return), one edge per slot, and ends in the node of the block that
\* begins at the instruction in the slot (in a "missing" node when the slot
\* is null); no lookup of a target fails.
C17_DotEdges ==
  LET d == to_dot
      E == d.edges
      n == Len(E)
  IN /\ n >= 1
     /\ E[n].from = [node |-> "Entry"]
     /\ IF entry_ = NULL THEN E[n].to = [node |-> "missing"]
        ELSE /\ E[n].to.node = "block"
             /\ d.blocks[E[n].to.index][1] = entry_
     /\ \A k \in 1..(n - 1) :
          /\ E[k].from.node = "block"
          /\ LET last == LastOfBlock(d.blocks, E[k].from.index)
                 to_instruction == At(Instrs, last)[E[k].slot]
             IN /\ E[k].slot \in SuccSlots(type_(last))
                /\ IF to_instruction = NULL THEN E[k].to = [node |-> "missing"]
                   ELSE /\ E[k].to.node = "block"
                        /\ d.blocks[E[k].to.index][1] = to_instruction
     /\ \A b \in 1..Len(d.blocks) :
          \A slot \in SuccSlots(type_(LastOfBlock(d.blocks, b))) :
            Cardinality({k \in 1..(n - 1) :
                           E[k].from = [node |-> "block", index |-> b] /\ E[k].slot = slot}) = 1

\* A block of two instructions that ends in a Branch, with one edge back to
\* its own node and one to the node of another block, and the entry set.
C17_Witness ==
  LET d == to_dot
  IN /\ entry_ # NULL
     /\ Len(d.blocks) = 2
     /\ \E b \in 1..2 :
          /\ Len(d.blocks[b]) = 2
          /\ type_(LastOfBlock(d.blocks, b)) = "Branch"
          /\ \E j, k \in 1..Len(d.edges) :
               /\ d.edges[j].from = [node |-> "block", index |-> b]
               /\ d.edges[j].to = [node |-> "block", index |-> b]
               /\ d.edges[k].from = [node |-> "block", index |-> b]
               /\ d.edges[k].to = [node |-> "block", index |-> 3 - b]

(* ------------------------------------------ the worklist of one query *)

\* No instruction is examined twice.
ExaminedOnce ==
  \A i, j \in 1..Len(query.examined) : i # j => query.examined[i] # query.examined[j]

\* C19: termination of the analysis.  Every query that has begun returns,
\* on every complete procedure, with loops, self-loops and back edges into
\* the target or the entry, and within one query no instruction is examined
\* (its kind inspected, its predecessors pushed) more than once.
C19_AnalysisTerminates ==
  /\ [](ExaminedOnce /\ Len(query.examined) <= NumInstructions)
  /\ (query.running ~> query.finished)

\* A query has returned whose target is in a loop with itself: the target
\* was popped and examined as a predecessor, and a later pop of it skipped.
C19_Witness ==
  /\ query.finished
  /\ \E i \in 1..Len(query.examined) : query.examined[i] = query.target_instruction
  /\ Count(query.popped, query.target_instruction) >= 2
  /\ entry_ \in {query.popped[k] : k \in 1..Len(query.popped)}

\* The filled successor slots of the procedure: the edges of the graph.
EdgeCount ==
  Cardinality({e \in AllInstructions \X {"next_", "branch_true_", "branch_false_"} :
                 e[2] \in SuccSlots(type_(e[1])) /\ At(Instrs, e[1])[e[2]] # NULL})

OutDegree(P) == Cardinality({slot \in SuccSlots(type_(P)) : At(Instrs, P)[slot] # NULL})

\* C20 as stated: within one query every instruction is pushed at most
\* once, and the worklist never holds more entries than the procedure has
\* instructions.
C20_EnqueuedOnce ==
  /\ \A P \in AllInstructions : Count(query.pushed, P) <= 1
  /\ Len(query.q.instructions_to_check) <= NumInstructions

\* C20 as amended: within one query an instruction P is pushed once for
\* each occurrence of P in the prev_ list of the target (the seed) and of
\* each instruction the loop expands, so at most once per successor slot of
\* P and once more per slot that holds the target; the worklist never
\* holds more entries than the procedure has edges plus the length of the
\* target's prev_ list.
C20_PushedOncePerEdge ==
  query # NoQuery =>
    /\ \A P \in AllInstructions :
         Count(query.pushed, P)
           <= OutDegree(P) + Count(prev_(query.target_instruction), P)
    /\ Len(query.q.instructions_to_check)
         <= EdgeCount + Len(prev_(query.target_instruction))

\* A query in which one instruction was pushed three times and the worklist
\* held more entries than the procedure has instructions.
C20_Witness ==
  /\ query.finished
  /\ \E P \in AllInstructions : Count(query.pushed, P) >= 3
  /\ Len(query.pushed) > NumInstructions + 2

(* ------------------------------------- editing a validated procedure *)

\* A caller that has built a complete procedure and called validate() goes
\* on to change it: after validate() returned false it puts a new call
\* that writes an Output parameter in front of an instruction; after
\* validate() returned true it renames a variable, or adds a dummy
\* instruction, sets the dummy's next_ and leads edges through the dummy.
\* The caller makes one such change to a procedure (renames apart, which
\* it may repeat) and calls validate() again.

FailedChecks ==
  {c \in AllInstructions \X VarPtrs : InitCheckFails(c[1], c[2])}

SuccSlotSeq == SelectSeq(SlotSeq, LAMBDA s : s.slot \in SuccSlots(type_(s.ptr)))

\* The successor setter of each slot of slots that holds from, in turn.
RECURSIVE redirect(_, _, _, _, _)
redirect(I, slots, i, from, to) ==
  IF i > Len(slots) THEN I
  ELSE redirect(IF At(I, slots[i].ptr)[slots[i].slot] = from
                  THEN set_successor(I, slots[i].ptr, slots[i].slot, to)
                  ELSE I,
                slots, i + 1, from, to)

\* new_call_instruction(fn), set_param_variable(0, P), the successor setter
\* of every slot that holds X with the new call, set_entry(new call) if X
\* is the entry, and set_next(X) on the new call.  The two slots of the
\* new call are written: cursor moves past them.
EditInsertCall(maxInstr) ==
  /\ validate_result = "false"
  /\ edit.op = "none"
  /\ cursor = Len(SlotSeq)
  /\ NumInstructions < maxInstr
  /\ \E X \in AllInstructions, i \in 1..Len(params_) :
       /\ params_[i].type = Output
       /\ LET P == params_[i].variable
              c == <<"Call", Len(call_instructions_) + 1>>
              I0 == [Instrs EXCEPT !.Call =
                       Append(@, [fn_ |-> <<Output>>, params_ |-> <<NULLV>>,
                                  next_ |-> NULL, prev_ |-> <<>>])]
              st == set_param_variable([I |-> I0, V |-> variables_], c, 1, P)
              I1 == redirect(st.I, SuccSlotSeq, 1, X, c)
              I2 == set_successor(I1, c, "next_", X)
          IN /\ StoreInstrs(I2)
             /\ variables_' = st.V
             /\ entry_' = IF entry_ = X THEN c ELSE entry_
             /\ edit' = [op |-> "insert_call", instruction |-> c, variable |-> P,
                         structural |-> StructuralStagesPass,
                         failed |-> FailedChecks]
  /\ validate_result' = "none"
  /\ cursor' = cursor + 2
  /\ UNCHANGED <<params_, query, last_set>>

EditSetName(names) ==
  /\ validate_result = "true"
  /\ edit.op \in {"none", "set_name"}
  /\ \E variable \in VarPtrs, name \in names :
       /\ name # variables_[variable].name_
       /\ set_name(variable, name)
       /\ edit' = [op |-> "set_name", instruction |-> NULL, variable |-> variable,
                   structural |-> TRUE, failed |-> {}]
  /\ UNCHANGED <<cursor, query, last_set>>

\* The new dummy's next_ is the one slot not yet written.
EditNewDummy(maxInstr) ==
  /\ validate_result = "true"
  /\ edit.op = "none"
  /\ NumInstructions < maxInstr
  /\ new_dummy_instruction
  /\ edit' = [op |-> "new_dummy",
              instruction |-> <<"Dummy", Len(dummy_instructions_) + 1>>,
              variable |-> NULLV, structural |-> TRUE, failed |-> {}]
  /\ UNCHANGED <<cursor, query, last_set>>

EditDummySetNext ==
  /\ edit.op = "new_dummy"
  /\ \E instruction \in AllInstructions : Dummy_set_next(edit.instruction, instruction)
  /\ edit' = [edit EXCEPT !.op = "dummy_set_next"]
  /\ cursor' = cursor + 1
  /\ UNCHANGED <<query, last_set>>

\* An edge into the dummy's successor, or the entry if the successor is the
\* entry, now leads to the dummy.
EditRedirect ==
  /\ edit.op \in {"dummy_set_next", "redirect"}
  /\ LET D == edit.instruction
         B == At(Instrs, D).next_
     IN \/ \E k \in 1..Len(SuccSlotSeq) :
             LET s == SuccSlotSeq[k]
             IN /\ s.ptr # D
                /\ At(Instrs, s.ptr)[s.slot] = B
                /\ StoreInstrs(set_successor(Instrs, s.ptr, s.slot, D))
                /\ validate_result' = "none"
                /\ UNCHANGED <<variables_, params_, entry_>>
        \/ /\ entry_ = B
           /\ B # D
           /\ set_entry(D)
  /\ edit' = [edit EXCEPT !.op = "redirect"]
  /\ UNCHANGED <<cursor, query, last_set>>

(* SpecEdit: complete procedures of up to MaxInstrBase instructions, at    *)
(* most MaxOfKindBase of each kind, validated and then edited up to        *)
(* MaxInstrEdit instructions.                                              *)

MaxInstrBase == 3
MaxOfKindBase == 1
MaxInstrEdit == 4
MaxVarsEdit == 2
FnsEdit == { <<Output>> }

NextEdit ==
  \/ ScriptNewVariable(MaxVarsEdit)
  \/ ScriptAddParameter(MaxVarsEdit, TRUE)
  \/ ScriptNewInstructionCapped(FnsEdit, MaxInstrBase, MaxOfKindBase)
  \/ ScriptWire(FALSE)
  \/ ScriptSetEntry
  \/ ScriptValidate(TRUE)
  \/ EditInsertCall(MaxInstrEdit)
  \/ EditSetName(Names)
  \/ EditNewDummy(MaxInstrEdit)
  \/ EditDummySetNext
  \/ EditRedirect

SpecEdit == Init /\ [][NextEdit]_vars

\* The instructions some path from the entry arrives at without passing
\* through avoid.
RECURSIVE ForwardAvoiding(_, _, _)
ForwardAvoiding(frontier, seen, avoid) ==
  IF frontier \subseteq seen THEN seen
  ELSE LET new == frontier \ seen
       IN ForwardAvoiding(UNION {Succs(Q) : Q \in new} \ {avoid}, seen \cup new, avoid)

ReachableAvoiding(avoid) ==
  IF entry_ \in {NULL, avoid} THEN {} ELSE ForwardAvoiding({entry_}, {}, avoid)

Reachable == ReachableAvoiding(NULL)

\* c dominates every Return: every Return is reached from the entry, and
\* by no path that avoids c.
DominatesReturns(c) ==
  /\ PtrsOfKind("Return") \subseteq Reachable
  /\ PtrsOfKind("Return") \cap ReachableAvoiding(c) = {}

OutputParameters == {params_[i].variable : i \in {j \in 1..Len(params_) : params_[j].type = Output}}

\* An Output parameter P and a Return with no call that writes P on any
\* backward path.
NeverAssignedBeforeSomeReturn(P, except) ==
  \E R \in PtrsOfKind("Return") :
    \A Q \in Ancestors(R) \ except : ~Writes(Q, P)

C13_FailsWithoutWriter ==
  (\E P \in OutputParameters : NeverAssignedBeforeSomeReturn(P, {})) => ~validate

\* The last edit put a call that writes P in front of an instruction of a
\* procedure of the kind C13 is about, valid but for the Return checks of P.
InsertedIntoOtherwiseValid ==
  /\ edit.op = "insert_call"
  /\ edit.structural
  /\ edit.failed \subseteq (PtrsOfKind("Return") \X {edit.variable})
  /\ NeverAssignedBeforeSomeReturn(edit.variable, {edit.instruction})

\* C13 as stated: a procedure with an Output parameter P and a Return that
\* no call writing P precedes fails validate(); and if that procedure is
\* otherwise valid, then after the insertion of a call writing P that
\* dominates every Return validate() returns true.
C13_OutputParameterRole ==
  /\ C13_FailsWithoutWriter
  /\ (InsertedIntoOtherwiseValid /\ DominatesReturns(edit.instruction)) => validate

\* C13 as amended: the first half as stated; the second half holds when
\* the inserted call is the only call of the procedure that writes P.
C13_OutputParameterRoleSoleWriter ==
  /\ C13_FailsWithoutWriter
  /\ (/\ InsertedIntoOtherwiseValid
      /\ DominatesReturns(edit.instruction)
      /\ \A Q \in PtrsOfKind("Call") \ {edit.instruction} : ~Writes(Q, edit.variable))
     => validate

\* The caller inserted the call in front of an instruction that is not the
\* entry, behind a branch, and validate() has then returned true.
C13_Witness ==
  /\ InsertedIntoOtherwiseValid
  /\ DominatesReturns(edit.instruction)
  /\ \A Q \in PtrsOfKind("Call") \ {edit.instruction} : ~Writes(Q, edit.variable)
  /\ validate_result = "true"
  /\ entry_ # edit.instruction
  /\ Len(branch_instructions_) = 1

\* C14 as stated: after a rename, and after the addition of a dummy
\* instruction that changes no instruction's reachability (a new dummy,
\* a dummy given a successor, an edge led through the dummy), a procedure
\* that passed validate() still passes.
C14_Monotone ==
  edit.op \in {"set_name", "new_dummy", "dummy_set_next", "redirect"} => validate

\* C14 as amended: a procedure that passed validate() still passes after a
\* rename, and after the addition of a dummy instruction once the dummy's
\* next_ is set, whether or not edges are then led through the dummy; it
\* fails between new_dummy_instruction and the dummy's set_next.
C14_MonotoneOnceDummyWired ==
  /\ edit.op \in {"set_name", "dummy_set_next", "redirect"} => validate
  /\ edit.op = "new_dummy" => ~validate

\* An edge of a validated procedure with a call and a Return was led
\* through a new dummy that is reachable from the entry, and validate() has
\* returned true again.
C14_Witness ==
  /\ edit.op = "redirect"
  /\ edit.instruction \in Reachable
  /\ edit.instruction # entry_
  /\ call_instructions_ # <<>>
  /\ return_instructions_ # <<>>
  /\ validate_result = "true"

(* ------------------------------------------- rewiring: the set_* calls *)

\* A caller creates variables and instructions (at most one call and one
\* branch), makes the first instruction the entry, and from then on calls
\* the set_* operations in any order, with any arguments, any number of
\* times.

SetCreate(fns, maxVars, maxInstr) ==
  /\ last_set.op = "none"
  /\ \/ ScriptNewVariable(maxVars)
     \/ ScriptNewInstruction(fns, maxInstr, 1, 1)
     \/ /\ entry_ = NULL
        /\ NumInstructions > 0
        /\ set_entry(all_instructions[1])
        /\ UNCHANGED <<cursor, query, edit, last_set>>

SetSuccessor ==
  /\ entry_ # NULL
  /\ \E this \in AllInstructions, instruction \in Targets :
       \/ /\ type_(this) = "Call"
          /\ Call_set_next(this, instruction)
          /\ last_set' = [op |-> "successor",
                          effect |-> SetEffect(At(Instrs, this).next_, instruction, NULL)]
       \/ /\ type_(this) = "Branch"
          /\ Branch_set_branch_true(this, instruction)
          /\ last_set' = [op |-> "successor",
                          effect |-> SetEffect(At(Instrs, this).branch_true_,
                                               instruction, NULL)]
       \/ /\ type_(this) = "Branch"
          /\ Branch_set_branch_false(this, instruction)
          /\ last_set' = [op |-> "successor",
                          effect |-> SetEffect(At(Instrs, this).branch_false_,
                                               instruction, NULL)]
       \/ /\ type_(this) = "Destruct"
          /\ Destruct_set_next(this, instruction)
          /\ last_set' = [op |-> "successor",
                          effect |-> SetEffect(At(Instrs, this).next_, instruction, NULL)]
       \/ /\ type_(this) = "Dummy"
          /\ Dummy_set_next(this, instruction)
          /\ last_set' = [op |-> "successor",
                          effect |-> SetEffect(At(Instrs, this).next_, instruction, NULL)]
  /\ UNCHANGED <<cursor, query, edit>>

SetOperand ==
  /\ entry_ # NULL
  /\ \E this \in AllInstructions, variable \in VarTargets :
       \/ /\ type_(this) = "Call"
          /\ \E param_index \in 1..Len(At(Instrs, this).params_) :
               /\ Call_set_param_variable(this, param_index, variable)
               /\ last_set' = [op |-> "operand",
                               effect |-> SetEffect(At(Instrs, this).params_[param_index],
                                                    variable, NULLV)]
       \/ /\ type_(this) = "Branch"
          /\ Branch_set_condition(this, variable)
          /\ last_set' = [op |-> "operand",
                          effect |-> SetEffect(At(Instrs, this).condition_, variable, NULLV)]
       \/ /\ type_(this) = "Destruct"
          /\ Destruct_set_variable(this, variable)
          /\ last_set' = [op |-> "operand",
                          effect |-> SetEffect(At(Instrs, this).variable_, variable, NULLV)]
  /\ UNCHANGED <<cursor, query, edit>>

(* SpecSet: up to MaxInstrSet instructions and MaxVarsSet variables,       *)
(* rewired at will.                                                        *)

MaxInstrSet == 2
MaxVarsSet == 2
FnsSet == { <<Input, Output>> }

NextSet ==
  \/ SetCreate(FnsSet, MaxVarsSet, MaxInstrSet)
  \/ SetSuccessor
  \/ SetOperand

SpecSet == Init /\ [][NextSet]_vars

\* J without its prev_ list: its successor slots, operands and function.
SlotsOf(I, J) == [At(I, J) EXCEPT !.prev_ = <<>>]

\* V without its users_ list.
FieldsOf(V, v) == [V[v] EXCEPT !.users_ = <<>>]

SameMultiset(s, t, domain) ==
  /\ Len(s) = Len(t)
  /\ \A x \in domain : Count(s, x) = Count(t, x)

\* No instruction and no variable is created or removed, and the
\* parameters and the entry of the procedure stay.
NothingCreatedOrRemoved ==
  /\ \A k \in Kinds : Len(Instrs'[k]) = Len(Instrs[k])
  /\ Len(variables_') = Len(variables_)
  /\ params_' = params_
  /\ entry_' = entry_

\* The step changes, of all prev_ lists, the one of old (one occurrence of
\* this less) and the one of new (one occurrence of this more), and nothing
\* when old or new is null.
PrevListsRewired(this, old, new) ==
  \A T \in AllInstructions :
    LET removed == IF T = old THEN 1 ELSE 0
        added == IF T = new THEN 1 ELSE 0
    IN /\ Len(At(Instrs', T).prev_) + removed = Len(prev_(T)) + added
       /\ Count(At(Instrs', T).prev_, this) + removed = Count(prev_(T), this) + added
       /\ \A J \in AllInstructions \ {this} :
            Count(At(Instrs', T).prev_, J) = Count(prev_(T), J)

UsersListsRewired(this, old, new) ==
  \A v \in VarPtrs :
    LET removed == IF v = old THEN 1 ELSE 0
        added == IF v = new THEN 1 ELSE 0
    IN /\ Len(variables_'[v].users_) + removed = Len(variables_[v].users_) + added
       /\ Count(variables_'[v].users_, this) + removed
            = Count(variables_[v].users_, this) + added
       /\ \A J \in AllInstructions \ {this} :
            Count(variables_'[v].users_, J) = Count(variables_[v].users_, J)

PrevListsKept ==
  \A T \in AllInstructions :
    SameMultiset(At(Instrs', T).prev_, prev_(T), AllInstructions)

UsersListsKept ==
  \A v \in VarPtrs :
    SameMultiset(variables_'[v].users_, variables_[v].users_, AllInstructions)

\* Every slot and operand of every instruction but the one slot of this
\* that blank erases, and every field of every variable but users_, is as
\* before.
OtherSlotsKept(this, blank(_)) ==
  /\ \A J \in AllInstructions \ {this} : SlotsOf(Instrs', J) = SlotsOf(Instrs, J)
  /\ blank(SlotsOf(Instrs', this)) = blank(SlotsOf(Instrs, this))
  /\ \A v \in VarPtrs : FieldsOf(variables_', v) = FieldsOf(variables_, v)

\* The frame of a successor setter called on this with argument new.
SuccessorFrame(this, slot, new) ==
  /\ NothingCreatedOrRemoved
  /\ At(Instrs', this)[slot] = new
  /\ OtherSlotsKept(this, LAMBDA r : [r EXCEPT ![slot] = NULL])
  /\ PrevListsRewired(this, At(Instrs, this)[slot], new)
  /\ UsersListsKept

BlankOperand(r, slot, index) ==
  IF slot = "params_" THEN [r EXCEPT !.params_[index] = NULLV]
  ELSE [r EXCEPT ![slot] = NULLV]

Operand(I, this, slot, index) ==
  IF slot = "params_" THEN At(I, this).params_[index] ELSE At(I, this)[slot]

\* The frame of an operand setter called on this with argument new.
OperandFrame(this, slot, index, new) ==
  /\ NothingCreatedOrRemoved
  /\ Operand(Instrs', this, slot, index) = new
  /\ OtherSlotsKept(this, LAMBDA r : BlankOperand(r, slot, index))
  /\ UsersListsRewired(this, Operand(Instrs, this, slot, index), new)
  /\ PrevListsKept

\* The step is a call of a setter on this with the argument.  (The first
\* conjunct follows from the second.)
IsSuccessorSetter(this, slot, instruction) ==
  /\ At(Instrs', this)[slot] = instruction
  /\ CASE type_(this) = "Call" -> Call_set_next(this, instruction)
       [] type_(this) = "Branch" /\ slot = "branch_true_" ->
            Branch_set_branch_true(this, instruction)
       [] type_(this) = "Branch" /\ slot = "branch_false_" ->
            Branch_set_branch_false(this, instruction)
       [] type_(this) = "Destruct" -> Destruct_set_next(this, instruction)
       [] type_(this) = "Dummy" -> Dummy_set_next(this, instruction)

IsOperandSetter(this, slot, index, variable) ==
  /\ Operand(Instrs', this, slot, index) = variable
  /\ CASE slot = "params_" -> Call_set_param_variable(this, index, variable)
       [] slot = "condition_" -> Branch_set_condition(this, variable)
       [] slot = "variable_" -> Destruct_set_variable(this, variable)

\* The operand slots of this, as pairs of slot and parameter index.
OperandSlots(this) ==
  CASE type_(this) = "Call" -> {"params_"} \X (1..Len(At(Instrs, this).params_))
    [] type_(this) = "Branch" -> {"condition_"} \X {0}
    [] type_(this) = "Destruct" -> {"variable_"} \X {0}
    [] OTHER -> {}

\* Every step that is a call of setter(this, argument) has the frame.
SuccessorSettersFrame ==
  \A this \in AllInstructions : \A slot \in SuccSlots(type_(this)) :
    \A instruction \in Targets :
      IsSuccessorSetter(this, slot, instruction)
        => SuccessorFrame(this, slot, instruction)

OperandSettersFrame ==
  \A this \in AllInstructions : \A o \in OperandSlots(this) :
    \A variable \in VarTargets :
      IsOperandSetter(this, o[1], o[2], variable)
        => OperandFrame(this, o[1], o[2], variable)

\* C21: the frame of an edge mutation.  A call of one of the eight setters
\* of a slot (set_next of Call, Destruct and Dummy, set_branch_true,
\* set_branch_false, set_param_variable, set_condition, set_variable) on
\* instruction I changes that slot of I to the argument, takes one
\* occurrence of I out of the prev_ (users_) list of what the slot held
\* before, unless that was null, and puts one occurrence of I into the
\* list of the argument, unless that is null; every other slot and operand
\* of every instruction, every other prev_ and users_ list as a multiset,
\* the parameters and the entry stay as they were.
C21_EdgeMutationFrame ==
  [][SuccessorSettersFrame /\ OperandSettersFrame]_vars

\* A successor setter has moved a slot from one instruction to another in
\* a procedure with an entry, and some instruction is the target of two
\* slots.
C21_Witness ==
  /\ last_set = [op |-> "successor", effect |-> "move"]
  /\ entry_ # NULL
  /\ \E T \in AllInstructions : Len(prev_(T)) = 2
  /\ \E v \in VarPtrs : Len(variables_[v].users_) = 2

\* C23: idempotence of an edge mutation.  A call of one of the eight
\* setters of a slot with the argument the slot holds already (the second
\* of two calls with the same argument, a re-set to the present target, a
\* repeated null) leaves every slot and operand as it is and every prev_
\* and users_ list with the same entries, each as often as before; only
\* the order inside the list of the target may change.
C23_EdgeMutationIdempotent ==
  [][/\ \A this \in AllInstructions : \A slot \in SuccSlots(type_(this)) :
          IsSuccessorSetter(this, slot, At(Instrs, this)[slot])
            => /\ NothingCreatedOrRemoved
               /\ OtherSlotsKept(this, LAMBDA r : r)
               /\ PrevListsKept
               /\ UsersListsKept
     /\ \A this \in AllInstructions : \A o \in OperandSlots(this) :
          IsOperandSetter(this, o[1], o[2], Operand(Instrs, this, o[1], o[2]))
            => /\ NothingCreatedOrRemoved
               /\ OtherSlotsKept(this, LAMBDA r : r)
               /\ PrevListsKept
               /\ UsersListsKept]_vars

\* A setter was called again with the target its slot held, and the list
\* of some target holds an instruction twice.
C23_Witness ==
  /\ last_set.effect = "again"
  /\ \/ /\ last_set.op = "successor"
        /\ \E T, J \in AllInstructions : Count(prev_(T), J) = 2
     \/ /\ last_set.op = "operand"
        /\ \E v \in VarPtrs, J \in AllInstructions : Count(variables_[v].users_, J) = 2

(* ------------------------------------------------- blocks of to_dot *)

\* The rule for the beginning of a block: the entry, an instruction with no
\* or with several predecessors, or one whose only predecessor is a Branch.
BeginsBlock(I) ==
  \/ I = entry_
  \/ Len(prev_(I)) = 0
  \/ Len(prev_(I)) >= 2
  \/ /\ Len(prev_(I)) = 1
     /\ \E b \in 1..Len(branch_instructions_) : prev_(I)[1] = <<"Branch", b>>

BlockMembers(R) ==
  LET block == get_instructions_in_block(R)
  IN {block[k] : k \in 1..Len(block)}

BothWalksEnd(R) ==
  /\ first_instruction_visits(R, R, <<R>>).ends
  /\ LET begin == get_first_instruction_in_block(R)
     IN block_visits(begin, begin, <<>>).ends

\* C22: block discovery is total and partitions the instructions.  For
\* every representative R the backward walk and the forward walk end; the
\* block holds R and no instruction twice; none of its instructions after
\* the first begins a block by the rule; the blocks of two representatives
\* are the same set or have nothing in common; and to_dot() puts every
\* instruction in exactly one of its blocks, with no add_new on a key that
\* is there already.
C22_BlockDiscoveryPartitions ==
  /\ \A R \in AllInstructions :
       /\ BothWalksEnd(R)
       /\ LET block == get_instructions_in_block(R)
          IN /\ R \in BlockMembers(R)
             /\ Cardinality(BlockMembers(R)) = Len(block)
             /\ \A k \in 2..Len(block) : ~BeginsBlock(block[k])
       /\ \A S \in AllInstructions :
            \/ BlockMembers(R) = BlockMembers(S)
            \/ BlockMembers(R) \cap BlockMembers(S) = {}
  /\ ~dot_blocks.add_new_failed
  /\ \A I \in AllInstructions :
       Cardinality({k \in 1..Len(dot_blocks.blocks) :
                      \E j \in 1..Len(dot_blocks.blocks[k]) :
                        dot_blocks.blocks[k][j] = I}) = 1

\* No entry is set; two instructions lie on a cycle none of whose members
\* begins a block, so that each is the first of the block it represents;
\* a third instruction has a null successor.
C22_Witness ==
  /\ entry_ = NULL
  /\ \E R, S \in AllInstructions :
       /\ R # S
       /\ BlockMembers(R) = BlockMembers(S)
       /\ get_first_instruction_in_block(R) = R
       /\ get_first_instruction_in_block(S) = S
       /\ ~BeginsBlock(R)
       /\ ~BeginsBlock(S)
       /\ \E T \in AllInstructions \ BlockMembers(R) :
            \E slot \in SuccSlots(type_(T)) : At(Instrs, T)[slot] = NULL

====
